---- MODULE Spec2Model ----
(***************************************************************************)
(* Trigger-word detector of the transcription client                      *)
(* (src/utils/run_client.py, trigger_word_callback and the trigger_state  *)
(* dictionary it mutates).                                                 *)
(*                                                                         *)
(* Time is counted in ticks of half a second: every time constant of the   *)
(* code (1.5 s, 2.0 s, 5.0 s) is a whole number of ticks.  Text is a       *)
(* sequence of one-character strings, so that strip, lower, rfind and      *)
(* substring containment are computed character by character.             *)
(***************************************************************************)
EXTENDS Integers, Sequences, FiniteSets, TLC

\* ------------------------------------------------------------- bounds
\* Largest clock value (ticks) at which a callback is delivered.
MaxTime == 12
\* Largest number of segments in one delivery.
MaxSegs == 2
\* Largest number of segments in one delivery of the long-list specification.
MaxSegsLong == 3

\* Largest number of segments and events recorded by the logger.
MaxEntries == 2
\* Largest clock value (ticks) of the logger specification.
MaxLogTime == 1
\* Largest number of VAD events and error reports of the routed session.
MaxRouterEvents == 1
\* Largest length of a text sent to the sidecar to be typed.
MaxTextLen == 2

\* ------------------------------------------------- program constants
\* args.text_stability_delay, default 1.5 s.
StabilityDelay == 3
\* minimum_collection_time = 2.0 s.
MinimumCollectionTime == 4
\* trigger_state['collection_timeout'] = 5.0 s.
CollectionTimeout == 10
\* timedelta(seconds=2.0) added to cooldown_until on a save.
CooldownTicks == 4

\* Python's None for the datetime fields of trigger_state.
NoTime == -1
\* Python's None for trigger_state['trigger_word'].
NoWord == <<"None">>
\* post_trigger_text before any finalization has bound it.
NoText == <<"Unbound">>

\* ------------------------------------------------------ text helpers
W_hello == <<"h","e","l","l","o">>
T_Hello_hello_There == <<" ","H","e","l","l","o"," ","h","e","l","l","o",","," ","T","h","e","r","e"," ">>
T_how_are_you == <<"h","o","w"," ","a","r","e"," ","y","o","u">>
T_dot == <<".">>
T_hello_world == <<"h","e","l","l","o"," ","w","o","r","l","d">>
T_hello_hello_there == <<"h","e","l","l","o"," ","h","e","l","l","o"," ","t","h","e","r","e">>
S_world_how_are_you == <<"w","o","r","l","d"," ","h","o","w"," ","a","r","e"," ","y","o","u">>
W_there == <<"t","h","e","r","e">>
S_there == <<"t","h","e","r","e">>
S_There == <<"T","h","e","r","e">>

\* args.trigger_words, in configured order.
TriggerWords == <<W_hello, W_there>>

\* The texts a delivered segment may carry.
SegTexts == {T_Hello_hello_There, T_dot}

\* A delivered segment is a dict; the detector reads only its 'text' key.
Segments == [text : SegTexts]

\* s.get('text', '')
get_text(s) == IF "text" \in DOMAIN s THEN s.text ELSE <<>>

UpperToLower ==
    ("A" :> "a") @@ ("B" :> "b") @@ ("C" :> "c") @@ ("D" :> "d") @@ ("E" :> "e") @@
    ("F" :> "f") @@ ("G" :> "g") @@ ("H" :> "h") @@ ("I" :> "i") @@ ("J" :> "j") @@
    ("K" :> "k") @@ ("L" :> "l") @@ ("M" :> "m") @@ ("N" :> "n") @@ ("O" :> "o") @@
    ("P" :> "p") @@ ("Q" :> "q") @@ ("R" :> "r") @@ ("S" :> "s") @@ ("T" :> "t") @@
    ("U" :> "u") @@ ("V" :> "v") @@ ("W" :> "w") @@ ("X" :> "x") @@ ("Y" :> "y") @@
    ("Z" :> "z")

\* str.lower()
lower(s) == [i \in 1..Len(s) |-> IF s[i] \in DOMAIN UpperToLower THEN UpperToLower[s[i]] ELSE s[i]]

\* The characters str.strip() removes when called without argument.
Whitespace == {" ", "\t", "\n"}

\* The argument of post_trigger_text.lstrip(' ,.!?').
Artifacts == {" ", ",", ".", "!", "?"}

RECURSIVE lstrip(_, _)
\* str.lstrip(chars)
lstrip(s, chars) ==
    IF s # <<>> /\ Head(s) \in chars THEN lstrip(Tail(s), chars) ELSE s

RECURSIVE rstrip(_, _)
\* str.rstrip(chars)
rstrip(s, chars) ==
    IF s # <<>> /\ s[Len(s)] \in chars THEN rstrip(SubSeq(s, 1, Len(s) - 1), chars) ELSE s

\* str.strip()
strip(s) == rstrip(lstrip(s, Whitespace), Whitespace)

RECURSIVE join(_)
\* ' '.join(texts)
join(texts) ==
    IF texts = <<>> THEN <<>>
    ELSE IF Len(texts) = 1 THEN texts[1]
    ELSE texts[1] \o <<" ">> \o join(Tail(texts))

\* sub occurs in s at 0-based offset p.
OccursAt(s, sub, p) ==
    /\ p >= 0
    /\ p + Len(sub) <= Len(s)
    /\ SubSeq(s, p + 1, p + Len(sub)) = sub

RECURSIVE find_from(_, _, _)
find_from(s, sub, p) ==
    IF p + Len(sub) > Len(s) THEN -1
    ELSE IF OccursAt(s, sub, p) THEN p
    ELSE find_from(s, sub, p + 1)

\* A defect: str.find, the lowest offset, where the code calls str.rfind.
rfind_first(s, sub) == find_from(s, sub, 0)

RECURSIVE rfind_from(_, _, _)
rfind_from(s, sub, p) ==
    IF p < 0 THEN -1
    ELSE IF OccursAt(s, sub, p) THEN p
    ELSE rfind_from(s, sub, p - 1)

\* str.rfind(sub): the highest offset at which sub occurs, or -1.
rfind(s, sub) == rfind_from(s, sub, Len(s) - Len(sub))

\* sub in s
contains(s, sub) == \E p \in 0..(Len(s) - Len(sub)) : OccursAt(s, sub, p)

\* [s.get('text', '').strip() for s in segs]
stripped_texts(segs) == [i \in 1..Len(segs) |-> strip(get_text(segs[i]))]

\* A defect: the slice starts one segment early.
slice_from_before(segs, k) == SubSeq(segs, IF k > 0 THEN k ELSE 1, Len(segs))

\* segs[k:], k a 0-based offset (empty when k >= len(segs)).
slice_from(segs, k) == SubSeq(segs, k + 1, Len(segs))


\* ------------------------------------------------------------- state
VARIABLES
    trigger_state,      \* the trigger_state dict
    now,                \* the wall clock, datetime.now()
    segments,           \* the transcript source's current segment list
    trigger_file,       \* args.trigger_output_file: the blocks appended so far
    last_block_time,    \* history: current_time of the callback that appended the latest
                        \* block, while that block is less than 2.0 s old
    stats,              \* transcription_logger.stats (trigger counters)
    branch,             \* the path taken by the callback of the latest step
    post_trigger_text,  \* the local post_trigger_text of that callback
    save_outcome,       \* how the save of that callback went ("none": no save tried)
    high_watermark,     \* history: the largest processed count a finalization has set
    trigger_words,      \* args.trigger_words (<<>> when none is configured)
    logger,             \* transcription_logger: the TranscriptionLogger object, its files
                        \* included (present = FALSE: transcription_logger is None)
    returned,           \* the latest call of a logger method or of combined_callback:
                        \* its arguments and how it ended
    frames              \* the calls of trigger_word_callback, or of the logger's
                        \* methods, in progress, by thread:
                        \* where each is and its local variables

vars == <<trigger_state, now, segments, trigger_file, last_block_time, stats, branch,
          post_trigger_text, save_outcome, high_watermark, trigger_words, logger, returned,
          frames>>

\* What trigger_word_callback reads and writes apart from the logger, and the
\* history of its latest run.
detector_vars == <<trigger_state, segments, trigger_file, last_block_time, branch,
                   post_trigger_text, save_outcome, high_watermark, trigger_words>>

\* No logger method and no combined_callback has been called in this step.
NoCall == [op |-> "none"]

\* No call is in progress between two steps: every callback runs to its end
\* within the step that delivers it.
NoFrames == <<>>

\* How the save of one callback goes: every call succeeds; open() of the
\* trigger output file raises; log_trigger_event raises (its text-log write)
\* after the block was written and the statement counted.
IoOutcomes == {"ok", "open_fails", "log_fails"}

\* The initial trigger_state dict.
InitTriggerState ==
    [ waiting |-> FALSE,
      trigger_word |-> NoWord,
      trigger_position |-> -1,
      trigger_segment_index |-> -1,
      start_time |-> NoTime,
      last_change_time |-> NoTime,
      stability_delay |-> StabilityDelay,
      last_saved_text |-> <<>>,
      cooldown_until |-> NoTime,
      last_processed_segment_count |-> 0,
      waiting_segment_count |-> 0,
      collection_timeout |-> CollectionTimeout,
      max_collection_time |-> NoTime ]

\* TranscriptionLogger.stats at construction.
InitStats ==
    [ total_segments |-> 0,
      completed_segments |-> 0,
      incomplete_segments |-> 0,
      total_duration |-> 0,
      total_words |-> 0,
      trigger_words_detected |-> 0,
      trigger_statements_saved |-> 0,
      vad_triggers |-> 0,
      vad_silence_filters |-> 0,
      vad_total_events |-> 0,
      segment_sizes |-> <<>>,
      segment_durations |-> <<>>,
      processing_times |-> <<>>,
      silence_periods |-> <<>> ]

\* The header TranscriptionLogger.__init__ writes to a fresh text log.
TextLogHeader == <<[line |-> "header"]>>

\* The TranscriptionLogger object after construction at clock value t; the
\* two log files are part of it.  json_log is <<>> until the first dump.
InitLogger(present, enable_json, enable_text, verbose, t) ==
    [ present |-> present,
      enable_json |-> enable_json,
      enable_text |-> enable_text,
      verbose |-> verbose,
      logged_segments |-> {},
      json_segments |-> <<>>,
      last_segment_time |-> t,
      session_id |-> "session",
      json_log |-> <<>>,
      text_log |-> IF present /\ enable_text THEN TextLogHeader ELSE <<>> ]

Init ==
    /\ trigger_state = InitTriggerState
    /\ now = 0
    /\ segments = <<>>
    /\ trigger_file = <<>>
    /\ last_block_time = NoTime
    /\ stats = InitStats
    /\ branch = "none"
    /\ post_trigger_text = NoText
    /\ save_outcome = "none"
    /\ high_watermark = 0
    /\ trigger_words = TriggerWords
    /\ logger = InitLogger(TRUE, TRUE, TRUE, TRUE, 0)
    /\ returned = NoCall
    /\ frames = NoFrames

\* A defect: the cooldown test of lines 491-493 is missing.
in_cooldown_ignored(ts, current_time) == FALSE

\* ------------------------------------------------ trigger_word_callback
\* The cooldown test that makes the callback return before anything else.
in_cooldown(ts, current_time) ==
    ts.cooldown_until # NoTime /\ current_time < ts.cooldown_until

\* A defect: every Waiting callback restarts the stability clock.
collect_restarts(ts, segs, current_time) ==
    [ts EXCEPT !.max_collection_time = IF @ = NoTime THEN current_time + ts.collection_timeout ELSE @,
               !.last_change_time = current_time,
               !.waiting_segment_count = Len(segs)]

\* A defect: every Waiting callback moves the collection deadline.
collect_moves_deadline(ts, segs, current_time) ==
    LET ts1 == [ts EXCEPT !.max_collection_time = current_time + ts.collection_timeout]
    IN  IF Len(segs) > ts1.waiting_segment_count
        THEN [ts1 EXCEPT !.last_change_time = current_time,
                         !.waiting_segment_count = Len(segs)]
        ELSE ts1

\* Waiting branch, first part: the collection deadline is set on the first
\* Waiting callback, then a longer list restarts the stability clock.
collect(ts, segs, current_time) ==
    LET ts1 == IF ts.max_collection_time = NoTime
               THEN [ts EXCEPT !.max_collection_time = current_time + ts.collection_timeout]
               ELSE ts
        segments_changed == Len(segs) > ts1.waiting_segment_count
    IN  IF segments_changed
        THEN [ts1 EXCEPT !.last_change_time = current_time,
                         !.waiting_segment_count = Len(segs)]
        ELSE ts1

\* A defect: stability alone finalizes, without the minimum collection time.
should_finalize_no_minimum(ts, current_time) ==
    LET collection_timeout_reached == current_time >= ts.max_collection_time
        time_since_change ==
            IF ts.last_change_time # NoTime THEN current_time - ts.last_change_time ELSE 0
    IN  collection_timeout_reached \/ time_since_change >= ts.stability_delay

\* A defect: no collection timeout, stability is the only way to finalize.
should_finalize_without_timeout(ts, current_time) ==
    LET time_since_change ==
            IF ts.last_change_time # NoTime THEN current_time - ts.last_change_time ELSE 0
        time_since_trigger ==
            IF ts.start_time # NoTime THEN current_time - ts.start_time ELSE 0
    IN  time_since_change >= ts.stability_delay /\ time_since_trigger >= MinimumCollectionTime

\* A defect: the minimum collection time guards the timeout, not stability.
should_finalize_stable_first(ts, current_time) ==
    LET time_since_change ==
            IF ts.last_change_time # NoTime THEN current_time - ts.last_change_time ELSE 0
        time_since_trigger ==
            IF ts.start_time # NoTime THEN current_time - ts.start_time ELSE 0
    IN  time_since_change >= ts.stability_delay
        \/ (current_time >= ts.max_collection_time /\ time_since_trigger >= MinimumCollectionTime)

\* should_finalize, evaluated on the state collect() leaves.
should_finalize(ts, current_time) ==
    LET collection_timeout_reached == current_time >= ts.max_collection_time
        time_since_change ==
            IF ts.last_change_time # NoTime THEN current_time - ts.last_change_time ELSE 0
        stability_reached == time_since_change >= ts.stability_delay
        time_since_trigger ==
            IF ts.start_time # NoTime THEN current_time - ts.start_time ELSE 0
    IN  collection_timeout_reached
        \/ (stability_reached /\ time_since_trigger >= MinimumCollectionTime)

\* The text after the last occurrence of the trigger word in the joined
\* texts of all segments; the segments after the trigger segment when the
\* word no longer occurs.
extract_statement(ts, segs) ==
    LET all_text == join(stripped_texts(segs))
        trigger_word == lower(ts.trigger_word)
        trigger_pos == rfind(lower(all_text), trigger_word)
    IN  IF trigger_pos >= 0
        THEN lstrip(strip(SubSeq(all_text, trigger_pos + Len(trigger_word) + 1, Len(all_text))),
                    Artifacts)
        ELSE join(stripped_texts(slice_from(segs, ts.trigger_segment_index + 1)))

\* A defect: bare punctuation counts as content.
meaningful_punctuation(text, ts) ==
    /\ strip(text) # <<>>
    /\ strip(text) # ts.last_saved_text

\* "Save if we have meaningful content".
meaningful(text, ts) ==
    /\ strip(text) # <<>>
    /\ strip(text) \notin {<<".">>, <<",">>, <<>>}
    /\ strip(text) # ts.last_saved_text

\* The block appended to the trigger output file for one statement.
file_entry(ts, text) == [trigger_word |-> ts.trigger_word, statement |-> strip(text)]

\* A defect: last_saved_text and the cooldown are assigned before the write.
save_statement_early(ts, file, block_time, st, text, current_time, io) ==
    LET ts1 == [ts EXCEPT !.last_saved_text = strip(text),
                          !.cooldown_until = current_time + CooldownTicks]
    IN  IF io = "open_fails"
        THEN [ts |-> ts1, file |-> file, block_time |-> block_time, stats |-> st,
              outcome |-> io]
        ELSE [ts |-> ts1,
              file |-> Append(file, file_entry(ts, text)),
              block_time |-> current_time,
              stats |-> [st EXCEPT !.trigger_statements_saved = @ + 1],
              outcome |-> io]

\* The try/except around the write: what is left of the state, the file and
\* the counters.  An exception skips the assignments that follow its source.
save_statement(ts, file, block_time, st, text, current_time, io) ==
    IF io = "open_fails"
    THEN [ts |-> ts, file |-> file, block_time |-> block_time, stats |-> st, outcome |-> io]
    ELSE IF io = "log_fails"
    THEN [ts |-> ts,
          file |-> Append(file, file_entry(ts, text)),
          block_time |-> current_time,
          stats |-> [st EXCEPT !.trigger_statements_saved = @ + 1],
          outcome |-> io]
    ELSE [ts |-> [ts EXCEPT !.last_saved_text = strip(text),
                            !.cooldown_until = current_time + CooldownTicks],
          file |-> Append(file, file_entry(ts, text)),
          block_time |-> current_time,
          stats |-> [st EXCEPT !.trigger_statements_saved = @ + 1],
          outcome |-> "ok"]

\* A defect: the collection deadline survives the reset.
reset_state_keeps_deadline(ts, current_segment_count) ==
    [ts EXCEPT !.waiting = FALSE,
               !.trigger_word = NoWord,
               !.trigger_segment_index = -1,
               !.trigger_position = -1,
               !.start_time = NoTime,
               !.last_change_time = NoTime,
               !.last_processed_segment_count = current_segment_count]

\* A defect: the processed count is not advanced.
reset_state_keeps_count(ts, current_segment_count) ==
    [ts EXCEPT !.waiting = FALSE,
               !.trigger_word = NoWord,
               !.trigger_segment_index = -1,
               !.trigger_position = -1,
               !.start_time = NoTime,
               !.last_change_time = NoTime,
               !.max_collection_time = NoTime]

\* "Reset state and clear transcript by updating processed count".
reset_state(ts, current_segment_count) ==
    [ts EXCEPT !.waiting = FALSE,
               !.trigger_word = NoWord,
               !.trigger_segment_index = -1,
               !.trigger_position = -1,
               !.start_time = NoTime,
               !.last_change_time = NoTime,
               !.max_collection_time = NoTime,
               !.last_processed_segment_count = current_segment_count]

\* The should_finalize block: extraction, the guarded save, the reset.
finalize(ts, file, block_time, st, segs, current_time, io) ==
    LET text == IF ts.trigger_segment_index >= 0 THEN extract_statement(ts, segs) ELSE NoText
        saved == IF ts.trigger_segment_index >= 0 /\ meaningful(text, ts)
                 THEN save_statement(ts, file, block_time, st, text, current_time, io)
                 ELSE [ts |-> ts, file |-> file, block_time |-> block_time, stats |-> st,
                       outcome |-> "none"]
    IN  [ts |-> reset_state(saved.ts, Len(segs)),
         file |-> saved.file,
         block_time |-> saved.block_time,
         stats |-> saved.stats,
         text |-> text,
         outcome |-> saved.outcome]

RECURSIVE last_trigger_word(_, _, _)
\* A defect: the last configured word the segment contains is taken.
last_trigger_word(segment_text, words, k) ==
    IF k > Len(words) THEN 0
    ELSE LET later == last_trigger_word(segment_text, words, k + 1)
         IN  IF later # 0 THEN later
             ELSE IF contains(lower(segment_text), lower(words[k])) THEN k
             ELSE 0

\* A defect: every segment is scanned again.
new_segments_all(ts, segs) == segs

\* new_segments = segments[last_processed_segment_count:]
new_segments(ts, segs) == slice_from(segs, ts.last_processed_segment_count)

RECURSIVE first_trigger_word(_, _, _)
\* The inner loop over args.trigger_words: the position of the first word
\* contained (case-insensitively) in segment_text, 0 when there is none.
first_trigger_word(segment_text, words, k) ==
    IF k > Len(words) THEN 0
    ELSE IF contains(lower(segment_text), lower(words[k])) THEN k
    ELSE first_trigger_word(segment_text, words, k + 1)

RECURSIVE scan(_, _, _)
\* The outer loop, enumerate(new_segments) from position i (0-based): the
\* first segment with non-empty stripped text that contains a trigger word.
scan(new, words, i) ==
    IF i >= Len(new) THEN [found |-> FALSE]
    ELSE LET segment_text == strip(get_text(new[i + 1]))
             k == IF segment_text = <<>> THEN 0 ELSE first_trigger_word(segment_text, words, 1)
         IN  IF k # 0
             THEN [found |-> TRUE, i |-> i, trigger_word |-> words[k]]
             ELSE scan(new, words, i + 1)

\* "Start waiting for complete statement": the assignments of the Idle
\* branch on a match at position i of new_segments.
open_trigger(ts, segs, current_time, i, trigger_word) ==
    [ts EXCEPT !.waiting = TRUE,
               !.trigger_word = trigger_word,
               !.trigger_segment_index = ts.last_processed_segment_count + i,
               !.start_time = current_time,
               !.last_change_time = current_time,
               !.waiting_segment_count = Len(segs)]

\* The line log_trigger_event appends to the text log.
trigger_event_line(event_type) == [line |-> "trigger_event", event |-> event_type]

\* segments=None: a value that is no list of segment dicts.
NoneSegments == <<[none |-> TRUE]>>

\* "not segments": the list is empty or None.
not_segments(segs) == segs = <<>> \/ segs = NoneSegments

\* The text-log write of log_trigger_event: made when the logger exists with
\* enable_text and verbose, skipped when it raises.
log_trigger_line(lg, event_type, written) ==
    IF lg.present /\ lg.enable_text /\ lg.verbose /\ written
    THEN [lg EXCEPT !.text_log = Append(@, trigger_event_line(event_type))]
    ELSE lg

\* A defect: an Idle scan that finds nothing advances the processed count.
trigger_word_callback_scan_advances(ts0, file, block_time, st, lg, hw, words, segs, current_time, io, detect_logged) ==
    LET same == [ts |-> ts0, file |-> file, block_time |-> block_time, stats |-> st,
                 logger |-> lg, hw |-> hw, text |-> NoText, outcome |-> "none",
                 raised |-> FALSE]
    IN  IF words = <<>> \/ not_segments(segs)
        THEN same @@ [branch |-> "return"]
        ELSE IF in_cooldown(ts0, current_time)
        THEN same @@ [branch |-> "cooldown"]
        ELSE IF ts0.waiting
        THEN LET ts == collect(ts0, segs, current_time)
             IN  IF should_finalize(ts, current_time)
                 THEN LET r == finalize(ts, file, block_time, st, segs, current_time, io)
                      IN  [ts |-> r.ts,
                           file |-> r.file,
                           block_time |-> r.block_time,
                           stats |-> IF lg.present THEN r.stats ELSE st,
                           logger |-> log_trigger_line(lg, "statement_saved", r.outcome = "ok"),
                           hw |-> IF Len(segs) > hw THEN Len(segs) ELSE hw,
                           text |-> r.text,
                           outcome |-> r.outcome,
                           raised |-> FALSE,
                           branch |-> "finalize"]
                 ELSE [same EXCEPT !.ts = ts] @@ [branch |-> "collect"]
        ELSE LET m == scan(new_segments(ts0, segs), words, 0)
             IN  IF m.found
                 THEN [same EXCEPT
                          !.ts = open_trigger(ts0, segs, current_time, m.i, m.trigger_word),
                          !.stats = IF lg.present
                                    THEN [st EXCEPT !.trigger_words_detected = @ + 1]
                                    ELSE st,
                          !.logger = log_trigger_line(lg, "trigger_detected", detect_logged),
                          !.raised = lg.present /\ lg.enable_text /\ lg.verbose
                                     /\ ~detect_logged]
                      @@ [branch |-> "open"]
                 ELSE [same EXCEPT !.ts.last_processed_segment_count = Len(segs)]
                      @@ [branch |-> "scan"]

\* One call of trigger_word_callback(text, segs) at clock value current_time,
\* as a function of what it reads: the new values of what it writes, the
\* path it took, and whether an exception leaves it (raised).  An exception of
\* log_trigger_event("trigger_detected") leaves the state as the assignments
\* before it made it.  Without a logger no event is counted.  io is how the
\* save goes, detect_logged whether the text-log write of
\* log_trigger_event("trigger_detected") succeeds.
trigger_word_callback(ts0, file, block_time, st, lg, hw, words, segs, current_time, io, detect_logged) ==
    LET same == [ts |-> ts0, file |-> file, block_time |-> block_time, stats |-> st,
                 logger |-> lg, hw |-> hw, text |-> NoText, outcome |-> "none",
                 raised |-> FALSE]
    IN  IF words = <<>> \/ not_segments(segs)
        THEN same @@ [branch |-> "return"]
        ELSE IF in_cooldown(ts0, current_time)
        THEN same @@ [branch |-> "cooldown"]
        ELSE IF ts0.waiting
        THEN LET ts == collect(ts0, segs, current_time)
             IN  IF should_finalize(ts, current_time)
                 THEN LET r == finalize(ts, file, block_time, st, segs, current_time, io)
                      IN  [ts |-> r.ts,
                           file |-> r.file,
                           block_time |-> r.block_time,
                           stats |-> IF lg.present THEN r.stats ELSE st,
                           logger |-> log_trigger_line(lg, "statement_saved", r.outcome = "ok"),
                           hw |-> IF Len(segs) > hw THEN Len(segs) ELSE hw,
                           text |-> r.text,
                           outcome |-> r.outcome,
                           raised |-> FALSE,
                           branch |-> "finalize"]
                 ELSE [same EXCEPT !.ts = ts] @@ [branch |-> "collect"]
        ELSE LET m == scan(new_segments(ts0, segs), words, 0)
             IN  IF m.found
                 THEN [same EXCEPT
                          !.ts = open_trigger(ts0, segs, current_time, m.i, m.trigger_word),
                          !.stats = IF lg.present
                                    THEN [st EXCEPT !.trigger_words_detected = @ + 1]
                                    ELSE st,
                          !.logger = log_trigger_line(lg, "trigger_detected", detect_logged),
                          !.raised = lg.present /\ lg.enable_text /\ lg.verbose
                                     /\ ~detect_logged]
                      @@ [branch |-> "open"]
                 ELSE same @@ [branch |-> "scan"]

\* The callback applied to the session's state, called directly by the
\* transcript source; the trigger-detected line is written.
TriggerWordCallback(segs, current_time, io) ==
    \E r \in {trigger_word_callback(trigger_state, trigger_file, last_block_time, stats,
                                    logger, high_watermark, trigger_words, segs,
                                    current_time, io, TRUE)} :
        /\ trigger_state' = r.ts
        /\ trigger_file' = r.file
        /\ last_block_time' = r.block_time
        /\ stats' = r.stats
        /\ logger' = r.logger
        /\ high_watermark' = r.hw
        /\ post_trigger_text' = r.text
        /\ save_outcome' = r.outcome
        /\ branch' = r.branch

\* ------------------------------------------------- TranscriptionLogger
\* A number and a string, as values of a segment's 'start' and 'end'.
Num(n) == [kind |-> "num", v |-> n]

Str(x) == [kind |-> "str", v |-> x]

\* None and a list, as values of 'start' and 'end'.
NoneValue == [kind |-> "none", v |-> "None"]

ListValue == [kind |-> "list", v |-> "[1]"]

\* An integer beyond the range of a float, which a JSON document can hold.
HugeValue == [kind |-> "huge", v |-> "10**400"]

\* The strings float() converts, with the numbers it returns; float() of any
\* other string raises ValueError.
NumericStrings == ("1" :> 1) @@ ("4" :> 4)

\* float(v) returns.
float_ok(v) == v.kind = "num" \/ (v.kind = "str" /\ v.v \in DOMAIN NumericStrings)

\* float(v) raises OverflowError, "int too large to convert to float".
float_overflows(v) == v.kind = "huge"

\* hash(v) returns: a list is unhashable, hash() of it raises TypeError.
hashable(v) == v.kind # "list"

\* float(v)
float(v) == IF v.kind = "num" THEN v.v ELSE NumericStrings[v.v]

\* d.get(key, default)
get(d, key, default) == IF key \in DOMAIN d THEN d[key] ELSE default

\* max(a, b)
max(a, b) == IF b > a THEN b ELSE a

RECURSIVE word_count_from(_, _, _)
\* len(text.split()) from position i: the maximal runs of non-whitespace.
word_count_from(text, i, in_word) ==
    IF i > Len(text) THEN 0
    ELSE IF text[i] \in Whitespace THEN word_count_from(text, i + 1, FALSE)
    ELSE (IF in_word THEN 0 ELSE 1) + word_count_from(text, i + 1, TRUE)

word_count(text) == word_count_from(text, 1, FALSE)

\* A defect: the key holds the text as delivered, not stripped.
segment_key_raw(segment_data) ==
    <<get(segment_data, "text", <<>>),
      get(segment_data, "start", Num(0)),
      get(segment_data, "end", Num(0))>>

\* segment_key = (text, start_time, end_time)
segment_key(segment_data) ==
    <<strip(get(segment_data, "text", <<>>)),
      get(segment_data, "start", Num(0)),
      get(segment_data, "end", Num(0))>>

\* How the file writes of one logger call go: all succeed; open() of the
\* JSON log raises; open() of the text log raises.
LogIo == {"ok", "json_fails", "text_fails"}

\* The outcomes of a call that writes to the text log only.
TextIo == {"ok", "text_fails"}

\* The block log_segment appends to the text log.
segment_block(segment_info, number, segment_data) ==
    [line |-> "segment",
     number |-> number,
     complete |-> get(segment_data, "completed", FALSE),
     info |-> segment_info]

\* A defect: a segment without a 'completed' key is counted in the total only.
count_segment_flagged(st, segment_data) ==
    IF "completed" \in DOMAIN segment_data
    THEN [st EXCEPT !.total_segments = @ + 1,
                    !.completed_segments = IF segment_data.completed THEN @ + 1 ELSE @,
                    !.incomplete_segments = IF segment_data.completed THEN @ ELSE @ + 1]
    ELSE [st EXCEPT !.total_segments = @ + 1]

\* "Update statistics": the three segment counters.
count_segment(st, segment_data) ==
    [st EXCEPT !.total_segments = @ + 1,
               !.completed_segments =
                   IF get(segment_data, "completed", FALSE) THEN @ + 1 ELSE @,
               !.incomplete_segments =
                   IF get(segment_data, "completed", FALSE) THEN @ ELSE @ + 1]

\* Both keys are present and both float() calls return.
timed(segment_data) ==
    /\ "start" \in DOMAIN segment_data
    /\ "end" \in DOMAIN segment_data
    /\ float_ok(segment_data.start)
    /\ float_ok(segment_data.end)

\* The try block on 'start' and 'end' is left by an exception its except
\* clause (ValueError, TypeError) does not catch: float() of 'start' raises
\* OverflowError, or it returns and float() of 'end' raises it.
overflows(segment_data) ==
    /\ "start" \in DOMAIN segment_data
    /\ "end" \in DOMAIN segment_data
    /\ \/ float_overflows(segment_data.start)
       \/ float_ok(segment_data.start) /\ float_overflows(segment_data.end)

\* A defect: the duration is the end time.
duration_of_end(segment_data) == float(segment_data.end)

\* duration = end_time - start_time
duration_of(segment_data) == float(segment_data.end) - float(segment_data.start)

\* round(duration, 3). Segment times are counted in units of 0.0005 s, where
\* rounding to three decimals gives a whole number of milliseconds:
\* round(0.0005, 3) = 0.001, round(0.0015, 3) = 0.002, round(-0.0005, 3) =
\* -0.001, and a whole number of milliseconds is left as it is.
round3(duration) ==
    IF duration % 2 = 0 THEN duration
    ELSE IF duration > 0 THEN duration + 1 ELSE duration - 1

\* A defect: total_duration is the end of the latest timed segment.
update_duration_latest(st, segment_data) ==
    IF timed(segment_data)
    THEN [st EXCEPT !.segment_durations = Append(@, duration_of(segment_data)),
                    !.total_duration = float(segment_data.end)]
    ELSE st

\* The try block on 'start' and 'end': nothing is changed when a key is
\* missing or a float() raises.
update_duration(st, segment_data) ==
    IF timed(segment_data)
    THEN [st EXCEPT !.segment_durations = Append(@, duration_of(segment_data)),
                    !.total_duration = max(@, float(segment_data.end))]
    ELSE st

\* A defect: the dump holds the statistics of the start of the session.
json_dump_initial_stats(lg, st) ==
    [session_id |-> lg.session_id, stats |-> InitStats, segments |-> lg.json_segments]

\* A defect: the dump holds the latest entry only.
json_dump_latest(lg, st) ==
    [session_id |-> lg.session_id,
     stats |-> st,
     segments |-> SubSeq(lg.json_segments, Len(lg.json_segments), Len(lg.json_segments))]

\* json.dump({"session_id": ..., "stats": self.stats, "segments":
\* self.json_segments}, f) into the file opened with 'w'.
json_dump(lg, st) ==
    [session_id |-> lg.session_id, stats |-> st, segments |-> lg.json_segments]

\* "segment_index": self.stats["total_segments"], read before the increment.
segment_index(lg, st) == st.total_segments

\* log_segment(segment_data) at clock value current_time: the logger and the
\* stats it leaves, and how it ends ("skipped": the early return of None;
\* "recorded": segment_info is returned, as entry; "raised": an exception
\* leaves the method).  The membership test on logged_segments hashes the
\* key, which raises on an unhashable 'start' or 'end' before anything is
\* changed.  An OverflowError of float() leaves the method after the key was
\* added and the counters and words were updated, before segment_info is
\* appended or written.
log_segment(lg, st, segment_data, current_time, io) ==
    LET segment_key_ == segment_key(segment_data)
        info0 == [timestamp |-> current_time,
                  type |-> "transcription",
                  segment_index |-> segment_index(lg, st),
                  time_since_last |-> current_time - lg.last_segment_time,
                  data |-> segment_data]
        st1 == count_segment(st, segment_data)
        has_text == "text" \in DOMAIN segment_data
        st2 == IF has_text
               THEN [st1 EXCEPT !.total_words = @ + word_count(segment_data.text)]
               ELSE st1
        info1 == IF has_text
                 THEN info0 @@ [word_count |-> word_count(segment_data.text)]
                 ELSE info0
        st3 == update_duration(st2, segment_data)
        segment_info ==
            IF timed(segment_data)
            THEN info1 @@ [duration |-> round3(duration_of(segment_data))]
            ELSE info1
        lg1 == [lg EXCEPT !.logged_segments = @ \cup {segment_key_},
                          !.last_segment_time = current_time]
        lg2 == IF lg.enable_json
               THEN [lg1 EXCEPT !.json_segments = Append(@, segment_info)]
               ELSE lg1
        json_raises == lg.enable_json /\ io = "json_fails"
        lg3 == IF lg.enable_json /\ ~json_raises
               THEN [lg2 EXCEPT !.json_log = json_dump(lg2, st3)]
               ELSE lg2
        text_raises == lg.enable_text /\ io = "text_fails"
        lg4 == IF lg.enable_text /\ ~json_raises /\ ~text_raises
               THEN [lg3 EXCEPT !.text_log =
                        Append(@, segment_block(segment_info, st3.total_segments, segment_data))]
               ELSE lg3
    IN  IF ~hashable(segment_key_[2]) \/ ~hashable(segment_key_[3])
        THEN [logger |-> lg, stats |-> st, result |-> "raised"]
        ELSE IF segment_key_ \in lg.logged_segments
        THEN [logger |-> lg, stats |-> st, result |-> "skipped"]
        ELSE IF overflows(segment_data)
        THEN [logger |-> lg1, stats |-> st2, result |-> "raised"]
        ELSE IF json_raises \/ text_raises
        THEN [logger |-> lg4, stats |-> st3, result |-> "raised"]
        ELSE [logger |-> lg4, stats |-> st3, result |-> "recorded", entry |-> segment_info]

\* log_vad_event(event_type, details): counted, appended to json_segments,
\* written to the text log in verbose mode.
log_vad_event(lg, st, event_type, details, current_time, io) ==
    LET st1 == [st EXCEPT
                   !.vad_total_events = @ + 1,
                   !.vad_silence_filters = IF event_type = "vad_filter" THEN @ + 1 ELSE @]
        event_info == [timestamp |-> current_time, type |-> "vad_event",
                       event |-> event_type, details |-> details]
        lg1 == IF lg.enable_json
               THEN [lg EXCEPT !.json_segments = Append(@, event_info)]
               ELSE lg
        writes == lg.enable_text /\ lg.verbose
        lg2 == IF writes /\ io # "text_fails"
               THEN [lg1 EXCEPT !.text_log = Append(@, [line |-> "vad_event", event |-> event_type])]
               ELSE lg1
    IN  [logger |-> lg2, stats |-> st1,
         result |-> IF writes /\ io = "text_fails" THEN "raised" ELSE "None"]

\* log_trigger_event(event_type): counted, written to the text log in
\* verbose mode.
log_trigger_event(lg, st, event_type, io) ==
    LET st1 == [st EXCEPT
                   !.trigger_words_detected = IF event_type = "trigger_detected" THEN @ + 1 ELSE @,
                   !.trigger_statements_saved =
                       IF event_type # "trigger_detected" /\ event_type = "statement_saved"
                       THEN @ + 1 ELSE @]
        writes == lg.enable_text /\ lg.verbose
    IN  [logger |-> log_trigger_line(lg, event_type, io # "text_fails"),
         stats |-> st1,
         result |-> IF writes /\ io = "text_fails" THEN "raised" ELSE "None"]

\* write_summary(): the statistics rendered and appended to the text log.
write_summary(lg, st, io) ==
    LET summary == [line |-> "summary",
                    total_segments |-> st.total_segments,
                    completed_segments |-> st.completed_segments,
                    incomplete_segments |-> st.incomplete_segments,
                    total_duration |-> st.total_duration,
                    total_words |-> st.total_words]
    IN  [logger |-> IF lg.enable_text /\ io # "text_fails"
                    THEN [lg EXCEPT !.text_log = Append(@, summary)]
                    ELSE lg,
         stats |-> st,
         result |-> IF lg.enable_text /\ io = "text_fails" THEN "raised" ELSE "None"]

\* ---------------------------------------------------- combined_callback
\* vad_event=None
NoVadEvent == [none |-> TRUE]

\* A defect: every delivered segment is logged.
to_log_any(seg) == TRUE

\* if seg.get('completed', False)
to_log(seg) == get(seg, "completed", FALSE)

RECURSIVE log_completed(_, _, _, _, _, _)
\* "for seg in segments" from position i (1-based): log_segment on each
\* completed segment; an exception of log_segment ends the loop.
log_completed(lg, st, segs, i, current_time, io) ==
    IF i > Len(segs)
    THEN [logger |-> lg, stats |-> st, raised |-> FALSE]
    ELSE IF ~to_log(segs[i])
    THEN log_completed(lg, st, segs, i + 1, current_time, io)
    ELSE LET r == log_segment(lg, st, segs[i], current_time, io)
         IN  IF r.result = "raised"
             THEN [logger |-> r.logger, stats |-> r.stats, raised |-> TRUE]
             ELSE log_completed(r.logger, r.stats, segs, i + 1, current_time, io)

\* The except clause: with a text log, the error is appended to it, and an
\* exception of that write leaves combined_callback.
report_error(lg, handler_ok) ==
    IF lg.present /\ lg.enable_text
    THEN IF handler_ok
         THEN [logger |-> [lg EXCEPT !.text_log = Append(@, [line |-> "error"])],
               result |-> "caught"]
         ELSE [logger |-> lg, result |-> "propagated"]
    ELSE [logger |-> lg, result |-> "caught"]

\* One call of combined_callback(text, segs, vad_event) at clock value
\* current_time, as a function of what it reads.  io is how the writes to the
\* log files go during the call, handler_ok whether the write of the except
\* clause succeeds.  result: "vad" (the return after log_vad_event), "done",
\* "caught" (an exception reached the except clause), "propagated" (an
\* exception left combined_callback); detector: trigger_word_callback was
\* called (t is what that call leaves).
combined_callback(ts0, file, block_time, st, lg, hw, words, segs, vad_event, current_time, io, handler_ok) ==
    LET same == [ts |-> ts0, file |-> file, block_time |-> block_time, hw |-> hw,
                 text |-> NoText, outcome |-> "none", branch |-> "none",
                 detector |-> FALSE]
    IN  IF vad_event # NoVadEvent /\ lg.present
        THEN LET r == log_vad_event(lg, st, vad_event.type, <<>>, current_time, io)
                 h == report_error(r.logger, handler_ok)
             IN  IF r.result = "raised"
                 THEN same @@ [stats |-> r.stats, logger |-> h.logger, result |-> h.result]
                 ELSE same @@ [stats |-> r.stats, logger |-> r.logger, result |-> "vad"]
        ELSE LET l == IF lg.present
                      THEN IF segs = NoneSegments
                           THEN [logger |-> lg, stats |-> st, raised |-> TRUE]
                           ELSE log_completed(lg, st, segs, 1, current_time, io)
                      ELSE [logger |-> lg, stats |-> st, raised |-> FALSE]
             IN  IF l.raised
                 THEN LET h == report_error(l.logger, handler_ok)
                      IN  same @@ [stats |-> l.stats, logger |-> h.logger, result |-> h.result]
                 ELSE IF words = <<>>
                 THEN same @@ [stats |-> l.stats, logger |-> l.logger, result |-> "done"]
                 ELSE CHOOSE out \in
                          {[ts |-> t.ts, file |-> t.file, block_time |-> t.block_time,
                            hw |-> t.hw, text |-> t.text, outcome |-> t.outcome,
                            branch |-> t.branch, detector |-> TRUE, stats |-> t.stats,
                            logger |-> IF t.raised
                                       THEN report_error(t.logger, handler_ok).logger
                                       ELSE t.logger,
                            result |-> IF t.raised
                                       THEN report_error(t.logger, handler_ok).result
                                       ELSE "done"] :
                              t \in {trigger_word_callback(
                                         ts0, file, block_time, l.stats, l.logger, hw, words,
                                         segs, current_time,
                                         IF io = "text_fails" THEN "log_fails" ELSE "ok",
                                         io # "text_fails")}} : TRUE

\* ------------------------------------------------------- environment
\* A step that is no callback leaves no callback outcome behind.
NoCallback ==
    /\ branch' = "none"
    /\ post_trigger_text' = NoText
    /\ save_outcome' = "none"
    /\ UNCHANGED <<trigger_state, trigger_file, last_block_time, stats, high_watermark,
                   trigger_words, logger, returned, frames>>

\* The wall clock advances by one tick.  A block older than the 2.0 s the
\* cooldown lasts is no longer remembered as the latest save.
Tick ==
    /\ now < MaxTime
    /\ now' = now + 1
    /\ last_block_time' =
           IF last_block_time # NoTime /\ now' >= last_block_time + CooldownTicks
           THEN NoTime
           ELSE last_block_time
    /\ branch' = "none"
    /\ post_trigger_text' = NoText
    /\ save_outcome' = "none"
    /\ UNCHANGED <<segments, trigger_state, trigger_file, stats, high_watermark,
                   trigger_words, logger, returned, frames>>

\* The transcript source transcribes one more segment (lists of up to n).
append_segment(n) ==
    /\ Len(segments) < n
    /\ \E s \in Segments : segments' = Append(segments, s)
    /\ UNCHANGED now
    /\ NoCallback

AppendSegment == append_segment(MaxSegs)

\* The transcript source revises a segment of its list in place.
ReviseSegment ==
    /\ \E i \in 1..Len(segments) : \E s \in Segments \ {segments[i]} :
           segments' = [segments EXCEPT ![i] = s]
    /\ UNCHANGED now
    /\ NoCallback

\* The transcript source's next list is one segment shorter.
DropSegment ==
    /\ segments # <<>>
    /\ segments' = SubSeq(segments, 1, Len(segments) - 1)
    /\ UNCHANGED now
    /\ NoCallback

\* The transcript source calls back with its current list.
Callback ==
    /\ \E io \in IoOutcomes : TriggerWordCallback(segments, now, io)
    /\ UNCHANGED <<now, segments, trigger_words, returned, frames>>

Next == Tick \/ AppendSegment \/ ReviseSegment \/ DropSegment \/ Callback

Spec == Init /\ [][Next]_vars

\* The transcript source's list never becomes empty again: there is one
\* segment from the start and the last one is never dropped.
InitLive ==
    /\ trigger_state = InitTriggerState
    /\ now = 0
    /\ \E s \in Segments : segments = <<s>>
    /\ trigger_file = <<>>
    /\ last_block_time = NoTime
    /\ stats = InitStats
    /\ branch = "none"
    /\ post_trigger_text = NoText
    /\ save_outcome = "none"
    /\ high_watermark = 0
    /\ trigger_words = TriggerWords
    /\ logger = InitLogger(TRUE, TRUE, TRUE, TRUE, 0)
    /\ returned = NoCall
    /\ frames = NoFrames

DropButFirst ==
    /\ Len(segments) > 1
    /\ DropSegment

NextLive == Tick \/ AppendSegment \/ DropButFirst \/ Callback

\* The clock keeps advancing (up to MaxTime) and callbacks, all of which
\* carry a non-empty list, keep arriving.
SpecLive == InitLive /\ [][NextLive]_vars /\ WF_vars(Tick) /\ []<><<Callback>>_vars

\* The same system started with other values of --text_stability_delay: 0 s
\* and 0.5 s.
StabilityDelays == {0, 1}

InitDelay ==
    /\ \E d \in StabilityDelays :
           trigger_state = [InitTriggerState EXCEPT !.stability_delay = d]
    /\ now = 0
    /\ segments = <<>>
    /\ trigger_file = <<>>
    /\ last_block_time = NoTime
    /\ stats = InitStats
    /\ branch = "none"
    /\ post_trigger_text = NoText
    /\ save_outcome = "none"
    /\ high_watermark = 0
    /\ trigger_words = TriggerWords
    /\ logger = InitLogger(TRUE, TRUE, TRUE, TRUE, 0)
    /\ returned = NoCall
    /\ frames = NoFrames

SpecDelay == InitDelay /\ [][Next]_vars

\* The same system with deliveries of up to MaxSegsLong segments.
AppendSegmentLong == append_segment(MaxSegsLong)

NextLong == Tick \/ AppendSegmentLong \/ ReviseSegment \/ DropSegment \/ Callback

SpecLong == Init /\ [][NextLong]_vars

\* The same system with the single trigger word "hello" and segments whose
\* text is revised between "hello world" and "how are you": a revision can
\* remove the captured word from the list.
RevisedSegments == [text : {T_hello_world, T_how_are_you}]

InitRevised ==
    /\ trigger_state = InitTriggerState
    /\ now = 0
    /\ segments = <<>>
    /\ trigger_file = <<>>
    /\ last_block_time = NoTime
    /\ stats = InitStats
    /\ branch = "none"
    /\ post_trigger_text = NoText
    /\ save_outcome = "none"
    /\ high_watermark = 0
    /\ trigger_words = <<W_hello>>
    /\ logger = InitLogger(TRUE, TRUE, TRUE, TRUE, 0)
    /\ returned = NoCall
    /\ frames = NoFrames

AppendRevised ==
    /\ Len(segments) < MaxSegs
    /\ \E s \in RevisedSegments : segments' = Append(segments, s)
    /\ UNCHANGED now
    /\ NoCallback

ReviseRevised ==
    /\ \E i \in 1..Len(segments) : \E s \in RevisedSegments \ {segments[i]} :
           segments' = [segments EXCEPT ![i] = s]
    /\ UNCHANGED now
    /\ NoCallback

NextRevised == Tick \/ AppendRevised \/ ReviseRevised \/ DropSegment \/ Callback

SpecRevised == InitRevised /\ [][NextRevised]_vars

\* Scenario A: the list ["hello world", "how are you"] no longer changes;
\* callbacks carrying it arrive at arbitrary times.
ScenarioA == <<[text |-> T_hello_world], [text |-> T_how_are_you]>>

InitA ==
    /\ trigger_state = InitTriggerState
    /\ now = 0
    /\ segments = ScenarioA
    /\ trigger_file = <<>>
    /\ last_block_time = NoTime
    /\ stats = InitStats
    /\ branch = "none"
    /\ post_trigger_text = NoText
    /\ save_outcome = "none"
    /\ high_watermark = 0
    /\ trigger_words = <<W_hello>>
    /\ logger = InitLogger(TRUE, TRUE, TRUE, TRUE, 0)
    /\ returned = NoCall
    /\ frames = NoFrames

NextA == Tick \/ Callback

SpecA == InitA /\ [][NextA]_vars

\* ---------------------------------------------------- concurrent callbacks
\* The threads of the transcript source that call the callback.
Threads == {1, 2}

\* A thread that is in no call.
Outside == [pc |-> "outside"]

\* Scenario A, delivered by two threads: a call is a sequence of steps, and
\* the steps of two calls can alternate.
InitThreads ==
    /\ trigger_state = InitTriggerState
    /\ now = 0
    /\ segments = ScenarioA
    /\ trigger_file = <<>>
    /\ last_block_time = NoTime
    /\ stats = InitStats
    /\ branch = "none"
    /\ post_trigger_text = NoText
    /\ save_outcome = "none"
    /\ high_watermark = 0
    /\ trigger_words = <<W_hello>>
    /\ logger = InitLogger(TRUE, TRUE, TRUE, TRUE, 0)
    /\ returned = NoCall
    /\ frames = [t \in Threads |-> Outside]

\* Thread t calls the callback and runs it up to the test of "Save if we have
\* meaningful content": a call that does not finalize ends here; one that
\* finalizes has made the assignments of the Waiting branch, holds its
\* locals, and goes on to the file_lock block or to the reset.
Enter(t) ==
    /\ frames[t].pc = "outside"
    /\ \E r \in {trigger_word_callback(trigger_state, trigger_file, last_block_time, stats,
                                        logger, high_watermark, trigger_words, segments, now,
                                        "ok", TRUE)} :
           IF r.branch # "finalize"
           THEN /\ trigger_state' = r.ts
                /\ stats' = r.stats
                /\ logger' = r.logger
                /\ branch' = r.branch
                /\ post_trigger_text' = NoText
                /\ UNCHANGED frames
           ELSE \E ts \in {collect(trigger_state, segments, now)} :
                \E text \in {IF ts.trigger_segment_index >= 0
                              THEN extract_statement(ts, segments)
                              ELSE NoText} :
                    /\ trigger_state' = ts
                    /\ frames' = [frames EXCEPT ![t] =
                                     [pc |-> IF ts.trigger_segment_index >= 0 /\ meaningful(text, ts)
                                             THEN "file_lock"
                                             ELSE "reset",
                                      post_trigger_text |-> text,
                                      current_time |-> now,
                                      current_segment_count |-> Len(segments)]]
                    /\ branch' = "finalize"
                    /\ post_trigger_text' = text
                    /\ UNCHANGED <<stats, logger>>
    /\ save_outcome' = "none"
    /\ UNCHANGED <<now, segments, trigger_file, last_block_time, high_watermark,
                   trigger_words, returned>>

\* Thread t runs the "with file_lock" block: the write, the event, the
\* assignments of last_saved_text and cooldown_until.
Save(t) ==
    /\ frames[t].pc = "file_lock"
    /\ \E saved \in {save_statement(trigger_state, trigger_file, last_block_time, stats,
                                     frames[t].post_trigger_text, frames[t].current_time,
                                     "ok")} :
           /\ trigger_state' = saved.ts
           /\ trigger_file' = saved.file
           /\ last_block_time' = saved.block_time
           /\ stats' = saved.stats
           /\ save_outcome' = saved.outcome
    /\ logger' = log_trigger_line(logger, "statement_saved", TRUE)
    /\ frames' = [frames EXCEPT ![t].pc = "reset"]
    /\ branch' = "file_lock"
    /\ post_trigger_text' = frames[t].post_trigger_text
    /\ UNCHANGED <<now, segments, high_watermark, trigger_words, returned>>

\* Thread t resets the state and returns.
Reset(t) ==
    /\ frames[t].pc = "reset"
    /\ trigger_state' = reset_state(trigger_state, frames[t].current_segment_count)
    /\ high_watermark' = max(high_watermark, frames[t].current_segment_count)
    /\ frames' = [frames EXCEPT ![t] = Outside]
    /\ branch' = "reset"
    /\ post_trigger_text' = NoText
    /\ save_outcome' = "none"
    /\ UNCHANGED <<now, segments, trigger_file, last_block_time, stats, logger,
                   trigger_words, returned>>

NextThreads == Tick \/ \E t \in Threads : Enter(t) \/ Save(t) \/ Reset(t)

SpecThreads == InitThreads /\ [][NextThreads]_vars

\* ------------------------------------------------------------ the router
\* How the session is configured: without logger (--disable_logging), with
\* verbose and with plain logging.
RouterLoggers ==
    {InitLogger(FALSE, FALSE, FALSE, FALSE, 0),
     InitLogger(TRUE, TRUE, TRUE, TRUE, 0),
     InitLogger(TRUE, TRUE, TRUE, FALSE, 0)}

\* With and without --trigger_words.
RouterWords == {<<>>, <<W_hello>>}

\* The texts of the segments the router is given.
RouterTexts == {T_hello_world, T_dot}

InitRouter ==
    /\ trigger_state = InitTriggerState
    /\ now = 0
    /\ segments = <<>>
    /\ trigger_file = <<>>
    /\ last_block_time = NoTime
    /\ stats = InitStats
    /\ branch = "none"
    /\ post_trigger_text = NoText
    /\ save_outcome = "none"
    /\ high_watermark = 0
    /\ trigger_words \in RouterWords
    /\ logger \in RouterLoggers
    /\ returned = NoCall
    /\ frames = NoFrames

\* A step of the transcript source that is no delivery.  The deliveries of
\* this specification all arrive at clock value 0: where the router sends a
\* delivery does not depend on the time.
NoDelivery ==
    /\ branch' = "none"
    /\ post_trigger_text' = NoText
    /\ save_outcome' = "none"
    /\ returned' = NoCall
    /\ UNCHANGED <<now, trigger_state, trigger_file, last_block_time, stats, high_watermark,
                   trigger_words, logger, frames>>

\* The transcript source starts a segment: it follows the last one in time
\* and is not completed yet.
StartSegment ==
    /\ Len(segments) < MaxSegs
    /\ \A i \in 1..Len(segments) : segments[i].completed
    /\ \E text \in RouterTexts :
           segments' = Append(segments, [text |-> text,
                                         start |-> Num(Len(segments)),
                                         end |-> Num(Len(segments) + 1),
                                         completed |-> FALSE])
    /\ NoDelivery

\* The transcript source revises the text of the segment in progress.
ReviseLast ==
    /\ segments # <<>>
    /\ \E last \in {segments[Len(segments)]} :
           /\ ~last.completed
           /\ \E text \in RouterTexts \ {last.text} :
                  segments' = [segments EXCEPT ![Len(segments)].text = text]
    /\ NoDelivery

\* The transcript source completes the segment in progress.
CompleteLast ==
    /\ segments # <<>>
    /\ ~segments[Len(segments)].completed
    /\ segments' = [segments EXCEPT ![Len(segments)].completed = TRUE]
    /\ NoDelivery

\* The VAD sub-events a delivery can carry.
VadEvents == {[type |-> "vad_filter"]}

\* The number of error reports in the text log.
error_lines == Len(SelectSeq(logger.text_log, LAMBDA l : l.line = "error"))

\* The transcript source delivers its current list, with or without a VAD
\* sub-event.
CombinedCallback ==
    \E vad_event \in VadEvents \cup {NoVadEvent} : \E io \in LogIo : \E handler_ok \in BOOLEAN :
        /\ (vad_event # NoVadEvent \/ io # "ok") =>
               stats.vad_total_events + error_lines < MaxRouterEvents
        /\ \E r \in {combined_callback(trigger_state, trigger_file, last_block_time, stats,
                                        logger, high_watermark, trigger_words, segments,
                                        vad_event, now, io, handler_ok)} :
               /\ trigger_state' = r.ts
               /\ trigger_file' = r.file
               /\ last_block_time' = r.block_time
               /\ stats' = r.stats
               /\ logger' = r.logger
               /\ high_watermark' = r.hw
               /\ post_trigger_text' = r.text
               /\ save_outcome' = r.outcome
               /\ branch' = r.branch
               /\ returned' = [op |-> "combined_callback", vad_event |-> vad_event,
                               result |-> r.result, detector |-> r.detector]
        /\ UNCHANGED <<now, segments, trigger_words, frames>>

\* A delivery whose segment list is empty or None, with or without a VAD
\* sub-event; no log file is written except by the except clause.
DeliverNothing ==
    \E segs \in {<<>>, NoneSegments} : \E vad_event \in VadEvents \cup {NoVadEvent} :
    \E handler_ok \in BOOLEAN :
        /\ (vad_event # NoVadEvent \/ (segs = NoneSegments /\ logger.present)) =>
               stats.vad_total_events + error_lines < MaxRouterEvents
        /\ \E r \in {combined_callback(trigger_state, trigger_file, last_block_time, stats,
                                        logger, high_watermark, trigger_words, segs,
                                        vad_event, now, "ok", handler_ok)} :
               /\ trigger_state' = r.ts
               /\ trigger_file' = r.file
               /\ last_block_time' = r.block_time
               /\ stats' = r.stats
               /\ logger' = r.logger
               /\ high_watermark' = r.hw
               /\ post_trigger_text' = r.text
               /\ save_outcome' = r.outcome
               /\ branch' = r.branch
               /\ returned' = [op |-> "combined_callback", vad_event |-> vad_event,
                               result |-> r.result, detector |-> r.detector,
                               delivered |-> segs]
        /\ UNCHANGED <<now, segments, trigger_words, frames>>

NextRouter == StartSegment \/ ReviseLast \/ CompleteLast \/ CombinedCallback

SpecRouter == InitRouter /\ [][NextRouter]_vars

NextNothing == StartSegment \/ ReviseLast \/ CompleteLast \/ CombinedCallback \/ DeliverNothing

SpecNothing == InitRouter /\ [][NextNothing]_vars

\* ------------------------------------------- the order of the trigger words
\* The configured lists of trigger words: two words in either order, one of
\* them written with a capital.
WordOrders == {<<W_hello, S_There>>, <<S_There, W_hello>>}

\* Segments that contain both words, the second word only, no word, and no
\* text at all once stripped.
WordSegments == [text : {T_Hello_hello_There, S_there, T_dot, <<" ">>}]

InitWords ==
    /\ trigger_state = InitTriggerState
    /\ now = 0
    /\ segments = <<>>
    /\ trigger_file = <<>>
    /\ last_block_time = NoTime
    /\ stats = InitStats
    /\ branch = "none"
    /\ post_trigger_text = NoText
    /\ save_outcome = "none"
    /\ high_watermark = 0
    /\ trigger_words \in WordOrders
    /\ logger = InitLogger(TRUE, TRUE, TRUE, TRUE, 0)
    /\ returned = NoCall
    /\ frames = NoFrames

\* The transcript source transcribes one more segment.
AppendWordSegment ==
    /\ Len(segments) < MaxSegs
    /\ \E s \in WordSegments : segments' = Append(segments, s)
    /\ UNCHANGED now
    /\ NoCallback

NextWords == Tick \/ AppendWordSegment \/ Callback

SpecWords == InitWords /\ [][NextWords]_vars

\* ------------------------------------------------ the logger on its own
T_a_b_padded == <<" ","a"," ","b"," ">>
T_a_b == <<"a"," ","b">>
T_c == <<"c">>

\* The segment dicts passed to log_segment: a completed segment; the same key
\* with untrimmed text and not completed; one without 'start' and
\* 'completed'; one with a non-numeric 'start'; one without 'text' whose
\* times are numeric strings.
LogSegments ==
    { [text |-> T_a_b, start |-> Num(0), end |-> Num(2), completed |-> TRUE],
      [text |-> T_a_b_padded, start |-> Num(0), end |-> Num(2), completed |-> FALSE],
      [text |-> T_c, end |-> Num(3)],
      [text |-> T_a_b, start |-> Str("x"), end |-> Num(4), completed |-> TRUE],
      [start |-> Str("1"), end |-> Str("4"), completed |-> TRUE] }

\* The event types passed to log_vad_event.
VadEventTypes == {"vad_filter", "speech_start"}

\* The configurations of the logger: enable_json, enable_text, verbose.
LoggerConfigs == {<<TRUE, TRUE, TRUE>>, <<TRUE, TRUE, FALSE>>}

InitLog ==
    /\ trigger_state = InitTriggerState
    /\ now = 0
    /\ segments = <<>>
    /\ trigger_file = <<>>
    /\ last_block_time = NoTime
    /\ stats = InitStats
    /\ branch = "none"
    /\ post_trigger_text = NoText
    /\ save_outcome = "none"
    /\ high_watermark = 0
    /\ trigger_words = TriggerWords
    /\ \E c \in LoggerConfigs : logger = InitLogger(TRUE, c[1], c[2], c[3], 0)
    /\ returned = NoCall
    /\ frames = NoFrames

\* The number of segments and events the logger has recorded.
recorded_count == stats.total_segments + stats.vad_total_events
                  + stats.trigger_words_detected + stats.trigger_statements_saved

\* The client has not stopped yet: write_summary is its last call.
session_open == returned.op # "write_summary"

\* The result of a logger method becomes the state.
logger_returns(r, call) ==
    /\ session_open
    /\ logger' = r.logger
    /\ stats' = r.stats
    /\ returned' = IF "entry" \in DOMAIN r
                   THEN call @@ [result |-> r.result, entry |-> r.entry]
                   ELSE call @@ [result |-> r.result]
    /\ UNCHANGED <<now, frames>>
    /\ UNCHANGED detector_vars

LogSegment ==
    \E segment_data \in LogSegments : \E io \in LogIo :
        /\ recorded_count < MaxEntries \/ segment_key(segment_data) \in logger.logged_segments
        /\ logger_returns(log_segment(logger, stats, segment_data, now, io),
                          [op |-> "log_segment", data |-> segment_data])

LogVadEvent ==
    \E event_type \in VadEventTypes : \E io \in TextIo :
        /\ recorded_count < MaxEntries
        /\ logger_returns(log_vad_event(logger, stats, event_type, <<>>, now, io),
                          [op |-> "log_vad_event", event |-> event_type])

LogTriggerEvent ==
    \E event_type \in {"trigger_detected", "statement_saved"} : \E io \in TextIo :
        /\ recorded_count < MaxEntries
        /\ logger_returns(log_trigger_event(logger, stats, event_type, io),
                          [op |-> "log_trigger_event", event |-> event_type])

\* write_summary, called once when the client stops.
WriteSummary ==
    \E io \in TextIo :
        /\ logger_returns(write_summary(logger, stats, io), [op |-> "write_summary"])

TickLog ==
    /\ session_open
    /\ now < MaxLogTime
    /\ now' = now + 1
    /\ returned' = NoCall
    /\ UNCHANGED <<logger, stats, frames>>
    /\ UNCHANGED detector_vars

NextLog == LogSegment \/ LogVadEvent \/ LogTriggerEvent \/ WriteSummary \/ TickLog

SpecLog == InitLog /\ [][NextLog]_vars

\* ------------------------------------------ log_segment on malformed times
\* At most this many segments are recorded.
MaxFieldEntries == 1

\* The dicts of D, and each with one of the key records added.
WithOptional(D, key_records) == D \cup {d @@ k : d \in D, k \in key_records}

\* The values of 'start' and of 'end': numbers, the text of a number, a text
\* that is no number, None, a list.
StartValues == {Num(0), Str("1"), Str("x"), NoneValue, ListValue}

EndValues == {Num(2), Str("x"), NoneValue}

\* The segment dicts with text "a b" and any of 'start', 'end' and
\* 'completed' present or missing.
FieldSegments ==
    WithOptional(WithOptional(WithOptional({[text |-> T_a_b]},
                                           {[start |-> v] : v \in StartValues}),
                              {[end |-> v] : v \in EndValues}),
                 {[completed |-> b] : b \in BOOLEAN})

LogFieldSegment ==
    \E segment_data \in FieldSegments : \E io \in LogIo :
        /\ stats.total_segments < MaxFieldEntries
        /\ logger_returns(log_segment(logger, stats, segment_data, now, io),
                          [op |-> "log_segment", data |-> segment_data, io |-> io])

NextFields == LogFieldSegment \/ TickLog

SpecFields == InitLog /\ [][NextFields]_vars

\* ------------------------------------ log_segment on times out of range
\* The segment dicts passed to log_segment: a well-formed one; one whose
\* 'start' and one whose 'end' is an integer no float can hold; one whose
\* 'start' is no number, so that float() of its 'end' is never called.
RangeSegments ==
    { [text |-> T_a_b, start |-> Num(0), end |-> Num(2), completed |-> TRUE],
      [text |-> T_c, start |-> HugeValue, end |-> Num(3), completed |-> TRUE],
      [text |-> T_c, start |-> Str("1"), end |-> HugeValue, completed |-> FALSE],
      [text |-> T_c, start |-> Str("x"), end |-> HugeValue, completed |-> TRUE] }

LogRangeSegment ==
    \E segment_data \in RangeSegments : \E io \in LogIo :
        /\ recorded_count < MaxEntries \/ segment_key(segment_data) \in logger.logged_segments
        /\ logger_returns(log_segment(logger, stats, segment_data, now, io),
                          [op |-> "log_segment", data |-> segment_data])

NextRange == LogRangeSegment \/ LogVadEvent \/ LogTriggerEvent \/ TickLog

SpecRange == InitLog /\ [][NextRange]_vars

\* ------------------------------------- the logger called by two threads
\* Each thread makes at most this many calls of logger methods.
MaxThreadCalls == 1

\* The calls the threads make: log_segment on a segment, on a second segment
\* with the same key, and on a segment with another key, the writes going
\* well or the JSON write failing; one event of each kind; write_summary.
LockCalls ==
    {[op |-> "log_segment", data |-> d, io |-> io] :
         d \in {[text |-> T_a_b, start |-> Num(0), end |-> Num(2), completed |-> TRUE],
                [text |-> T_a_b_padded, start |-> Num(0), end |-> Num(2), completed |-> FALSE],
                [text |-> T_c, end |-> Num(3)]},
         io \in {"ok", "json_fails"}}
    \cup {[op |-> "log_vad_event", event |-> "vad_filter", io |-> "ok"],
          [op |-> "log_trigger_event", event |-> "trigger_detected", io |-> "ok"],
          [op |-> "write_summary", io |-> "ok"]}

\* The positions of a thread inside 'with self.lock:'.
Holding == {"key", "count", "write", "body"}

\* A thread between its call of a method and the method's return.
in_flight(frame) == frame.pc \in Holding \cup {"acquire"}

\* A defect: the lock is never held.
lock_free_always(fr) == TRUE

\* self.lock (a threading.Lock) is not held by any thread.
lock_free(fr) == \A t \in Threads : fr[t].pc \notin Holding

InitLock ==
    /\ trigger_state = InitTriggerState
    /\ now = 0
    /\ segments = <<>>
    /\ trigger_file = <<>>
    /\ last_block_time = NoTime
    /\ stats = InitStats
    /\ branch = "none"
    /\ post_trigger_text = NoText
    /\ save_outcome = "none"
    /\ high_watermark = 0
    /\ trigger_words = TriggerWords
    /\ \E c \in LoggerConfigs : logger = InitLogger(TRUE, c[1], c[2], c[3], 0)
    /\ returned = NoCall
    /\ frames = [t \in Threads |-> Outside @@ [calls |-> 0]]

\* The frame of a thread whose call has returned or raised.
left(frame, result) ==
    [pc |-> "returned", call |-> frame.call, calls |-> frame.calls,
     concurrent |-> frame.concurrent, before |-> frame.before, result |-> result]

\* Thread t calls a method of the logger and reaches 'with self.lock:'.
\* concurrent records that the call and a call of another thread are in
\* progress at the same time.
Call(t) ==
    /\ ~in_flight(frames[t])
    /\ frames[t].calls < MaxThreadCalls
    /\ \E call \in LockCalls :
          frames' = [u \in Threads |->
                        IF u = t
                        THEN [pc |-> "acquire", call |-> call, calls |-> frames[t].calls + 1,
                              concurrent |-> \E v \in Threads \ {t} : in_flight(frames[v])]
                        ELSE IF in_flight(frames[u])
                        THEN [frames[u] EXCEPT !.concurrent = TRUE]
                        ELSE frames[u]]
    /\ UNCHANGED <<logger, stats, now, returned>>
    /\ UNCHANGED detector_vars

\* 'with self.lock:' is entered; before is the state the method finds.
Acquire(t) ==
    /\ frames[t].pc = "acquire"
    /\ lock_free(frames)
    /\ frames' = [frames EXCEPT ![t] =
                      [pc |-> IF frames[t].call.op = "log_segment" THEN "key" ELSE "body",
                       call |-> frames[t].call, calls |-> frames[t].calls,
                       concurrent |-> frames[t].concurrent,
                       before |-> [logger |-> logger, stats |-> stats]]]
    /\ UNCHANGED <<logger, stats, now, returned>>
    /\ UNCHANGED detector_vars

\* log_segment up to segment_info: the duplicate test with its return, which
\* releases the lock, or the key added and segment_info prepared.
CheckKey(t) ==
    /\ frames[t].pc = "key"
    /\ \A segment_data \in {frames[t].call.data} :
          IF segment_key(segment_data) \in logger.logged_segments
          THEN /\ frames' = [frames EXCEPT ![t] = left(frames[t], "skipped")]
               /\ UNCHANGED logger
          ELSE /\ logger' = [logger EXCEPT !.logged_segments = @ \cup {segment_key(segment_data)},
                                           !.last_segment_time = now]
               /\ frames' = [frames EXCEPT ![t] =
                                 [frames[t] EXCEPT !.pc = "count"] @@
                                 [segment_info |->
                                      [timestamp |-> now,
                                       type |-> "transcription",
                                       segment_index |-> segment_index(logger, stats),
                                       time_since_last |-> now - logger.last_segment_time,
                                       data |-> segment_data]]]
    /\ UNCHANGED <<stats, now, returned>>
    /\ UNCHANGED detector_vars

\* log_segment's update of the statistics; word_count and duration are added
\* to segment_info (f @@ g keeps the fields of f: merging a field that
\* segment_info has adds nothing).
Count(t) ==
    /\ frames[t].pc = "count"
    /\ \A segment_data \in {frames[t].call.data} :
          /\ stats' = update_duration(
                          [count_segment(stats, segment_data) EXCEPT
                              !.total_words = IF "text" \in DOMAIN segment_data
                                              THEN @ + word_count(segment_data.text) ELSE @],
                          segment_data)
          /\ frames' = [frames EXCEPT ![t] =
                            [frames[t] EXCEPT
                                !.pc = "write",
                                !.segment_info =
                                    @ @@ (IF "text" \in DOMAIN segment_data
                                          THEN [word_count |-> word_count(segment_data.text)]
                                          ELSE [timestamp |-> now])
                                      @@ (IF timed(segment_data)
                                          THEN [duration |-> round3(duration_of(segment_data))]
                                          ELSE [timestamp |-> now])]]
    /\ UNCHANGED <<logger, now, returned>>
    /\ UNCHANGED detector_vars

\* log_segment's writes: the entry appended to json_segments, the JSON file
\* rewritten, the block appended to the text log; the return or the
\* exception of a write releases the lock.
Write(t) ==
    /\ frames[t].pc = "write"
    /\ \A segment_info \in {frames[t].segment_info} :
       \A lg2 \in {IF logger.enable_json
                   THEN [logger EXCEPT !.json_segments = Append(@, segment_info)]
                   ELSE logger} :
          IF logger.enable_json /\ frames[t].call.io = "json_fails"
          THEN /\ logger' = lg2
               /\ frames' = [frames EXCEPT ![t] = left(frames[t], "raised")]
          ELSE /\ \A lg3 \in {IF logger.enable_json
                               THEN [lg2 EXCEPT !.json_log = json_dump(lg2, stats)]
                               ELSE lg2} :
                     logger' = IF logger.enable_text
                               THEN [lg3 EXCEPT !.text_log =
                                        Append(@, segment_block(segment_info, stats.total_segments,
                                                                frames[t].call.data))]
                               ELSE lg3
               /\ frames' = [frames EXCEPT ![t] = left(frames[t], "recorded")]
    /\ UNCHANGED <<stats, now, returned>>
    /\ UNCHANGED detector_vars

\* The method a call is of, applied to the logger lg and the statistics st.
method(call, lg, st) ==
    IF call.op = "log_segment" THEN log_segment(lg, st, call.data, 0, call.io)
    ELSE IF call.op = "log_vad_event" THEN log_vad_event(lg, st, call.event, <<>>, 0, call.io)
    ELSE IF call.op = "log_trigger_event" THEN log_trigger_event(lg, st, call.event, call.io)
    ELSE write_summary(lg, st, call.io)

\* The body of log_vad_event, log_trigger_event or write_summary, and the
\* release of the lock.
Body(t) ==
    /\ frames[t].pc = "body"
    /\ \A r \in {method(frames[t].call, logger, stats)} :
          /\ logger' = r.logger
          /\ stats' = r.stats
          /\ frames' = [frames EXCEPT ![t] = left(frames[t], r.result)]
    /\ UNCHANGED <<now, returned>>
    /\ UNCHANGED detector_vars

NextLock ==
    \E t \in Threads : Call(t) \/ Acquire(t) \/ CheckKey(t) \/ Count(t) \/ Write(t) \/ Body(t)

SpecLock == InitLock /\ [][NextLock]_vars

\* ------------------------------------------- the sidecar's _escape_sendkeys
\* special_chars: the characters SendKeys gives a meaning to, each with its
\* escape, in the order of the dict.
special_chars ==
    << <<"+", <<"{", "+", "}">>>>,
       <<"^", <<"{", "^", "}">>>>,
       <<"%", <<"{", "%", "}">>>>,
       <<"~", <<"{", "~", "}">>>>,
       <<"(", <<"{", "(", "}">>>>,
       <<")", <<"{", ")", "}">>>>,
       <<"{", <<"{", "{", "}">>>>,
       <<"}", <<"{", "}", "}">>>>,
       <<"[", <<"{", "[", "}">>>>,
       <<"]", <<"{", "]", "}">>>> >>

RECURSIVE replace(_, _, _)
\* text.replace(char, escape) for a one-character char: every occurrence
\* of char in text is replaced, the text it reads being the one it is given.
replace(text, char, escape) ==
    IF text = <<>> THEN <<>>
    ELSE (IF Head(text) = char THEN escape ELSE <<Head(text)>>)
         \o replace(Tail(text), char, escape)

RECURSIVE escape_from(_, _)
\* The loop over special_chars.items() from the k-th item: each replace
\* works on the result of the one before.
escape_from(escaped, k) ==
    IF k > Len(special_chars) THEN escaped
    ELSE escape_from(replace(escaped, special_chars[k][1], special_chars[k][2]), k + 1)

\* WindowsAutomation._escape_sendkeys(text)
_escape_sendkeys(text) == escape_from(text, 1)

\* The characters of the texts: the ten special characters and a letter.
TextChars == {special_chars[k][1] : k \in 1..Len(special_chars)} \cup {"a"}

\* The texts of up to MaxTextLen characters.
Texts == UNION {[1..n -> TextChars] : n \in 0..MaxTextLen}

\* A request to type a text has arrived at the sidecar.
InitSidecar ==
    /\ trigger_state = InitTriggerState
    /\ now = 0
    /\ segments = <<>>
    /\ trigger_file = <<>>
    /\ last_block_time = NoTime
    /\ stats = InitStats
    /\ branch = "none"
    /\ post_trigger_text = NoText
    /\ save_outcome = "none"
    /\ high_watermark = 0
    /\ trigger_words = TriggerWords
    /\ logger = InitLogger(FALSE, FALSE, FALSE, FALSE, 0)
    /\ \E text \in Texts : returned = [op |-> "type_text", text |-> text]
    /\ frames = NoFrames

\* type_text escapes the text of the request.
EscapeSendkeys ==
    /\ returned.op = "type_text"
    /\ returned' = [op |-> "_escape_sendkeys",
                    text |-> returned.text,
                    escaped |-> _escape_sendkeys(returned.text)]
    /\ UNCHANGED <<now, logger, stats, frames>>
    /\ UNCHANGED detector_vars

NextSidecar == EscapeSendkeys

SpecSidecar == InitSidecar /\ [][NextSidecar]_vars

\* ---------------------------------------------------------------------------
\* Properties of trigger_word_callback
\* ---------------------------------------------------------------------------

Max(S) == CHOOSE x \in S : \A y \in S : y <= x

Min(S) == CHOOSE x \in S : \A y \in S : x <= y

\* s without its leading and trailing whitespace, by positions.
Trimmed(s) ==
    LET I == {i \in 1..Len(s) : s[i] \notin Whitespace}
    IN  IF I = {} THEN <<>> ELSE SubSeq(s, Min(I), Max(I))

\* s from its first character outside chars.
WithoutLeading(s, chars) ==
    LET I == {i \in 1..Len(s) : s[i] \notin chars}
    IN  IF I = {} THEN <<>> ELSE SubSeq(s, Min(I), Len(s))

\* The trimmed texts of the first n segments, separated by single spaces.
RECURSIVE SpaceJoined(_, _)

SpaceJoined(segs, n) ==
    IF n = 0 THEN <<>>
    ELSE IF n = 1 THEN Trimmed(get_text(segs[1]))
    ELSE SpaceJoined(segs, n - 1) \o <<" ">> \o Trimmed(get_text(segs[n]))

\* A step that is one run of trigger_word_callback.
CallbackStep == branch' # "none"

\* A step in which a collection window opens.
TriggerOpens == ~trigger_state.waiting /\ trigger_state'.waiting

\* The fields finalization clears.
Cleared(ts) ==
    /\ ~ts.waiting
    /\ ts.trigger_word = NoWord
    /\ ts.trigger_segment_index = -1
    /\ ts.start_time = NoTime
    /\ ts.last_change_time = NoTime
    /\ ts.max_collection_time = NoTime

\* C1: a trigger opens only on a segment of the delivered list whose index is
\* at least the processed count the callback started with, and the captured
\* trigger_segment_index is the index of that segment in the delivered list
\* (the segment at that index contains the captured word).
C1_ScanFromProcessedCount ==
    [][TriggerOpens =>
          \A k \in {trigger_state'.trigger_segment_index} :
          \A word \in {lower(trigger_state'.trigger_word)} :
              /\ k >= trigger_state.last_processed_segment_count
              /\ k < Len(segments')
              /\ \A text \in {lower(Trimmed(get_text(segments'[k + 1])))} :
                    contains(text, word)
              /\ \A j \in trigger_state.last_processed_segment_count..(k - 1) :
                    \A text \in {lower(Trimmed(get_text(segments'[j + 1])))} :
                        ~contains(text, word)
      ]_vars

\* A trigger has just opened above a processed segment that holds the word.
C1_Witness ==
    /\ branch = "open"
    /\ trigger_state.last_processed_segment_count >= 1
    /\ trigger_state.trigger_segment_index >= 1
    /\ contains(lower(get_text(segments[1])), W_hello)

\* C2: once a finalization has set the processed count to n, no later
\* callback opens a trigger on a segment at an index below n.
C2_NeverBelowAnEarlierCount ==
    [][TriggerOpens => trigger_state'.trigger_segment_index >= high_watermark]_vars

\* C3: a callback in Waiting, outside cooldown, with a non-empty list
\* finalizes exactly when the deadline is reached or the list has been stable
\* for stability_delay and 2.0 s have passed since the trigger; otherwise the
\* detector stays Waiting and nothing is saved.
C3_FinalizeCondition ==
    [][(CallbackStep /\ trigger_state.waiting /\ segments' # <<>>
          /\ now' >= trigger_state.cooldown_until) =>
          LET deadline ==
                  IF trigger_state.max_collection_time # NoTime
                  THEN trigger_state.max_collection_time
                  ELSE now' + CollectionTimeout
              lastChangeTime ==
                  IF Len(segments') > trigger_state.waiting_segment_count
                  THEN now'
                  ELSE trigger_state.last_change_time
              due ==
                  \/ now' >= deadline
                  \/ /\ now' - lastChangeTime >= StabilityDelay
                     /\ now' - trigger_state.start_time >= MinimumCollectionTime
          IN  /\ due <=> ~trigger_state'.waiting
              /\ due <=> branch' = "finalize"
              /\ ~due =>
                    /\ trigger_file' = trigger_file
                    /\ stats' = stats
                    /\ trigger_state'.last_saved_text = trigger_state.last_saved_text
                    /\ trigger_state'.trigger_word = trigger_state.trigger_word
                    /\ trigger_state'.start_time = trigger_state.start_time
                    /\ trigger_state'.max_collection_time = deadline
                    /\ trigger_state'.last_change_time = lastChangeTime
      ]_vars

\* A window was finalized on stability, before any deadline could be reached.
C3_Witness ==
    /\ branch = "finalize"
    /\ now < CollectionTimeout
    /\ now >= MinimumCollectionTime

\* C4: a callback in Waiting that arrives once 5 seconds have passed since the
\* trigger start time finalizes the window.
C4_TimeoutFromTriggerStart ==
    [][(CallbackStep /\ trigger_state.waiting /\ segments' # <<>>
          /\ now' >= trigger_state.cooldown_until
          /\ now' - trigger_state.start_time >= CollectionTimeout) =>
          branch' = "finalize"
      ]_vars

\* C5: the candidate statement of a finalization is the original-case text
\* after the last case-insensitive occurrence of the captured word in the
\* space-joined trimmed texts of all delivered segments, trimmed and then
\* without leading characters from {space , . ! ?}; "hello hello there" with
\* trigger "hello" gives "there".
C5_StatementAfterLastOccurrence ==
    [][branch' = "finalize" =>
          \A all_text \in {SpaceJoined(segments', Len(segments'))} :
          \A lowered \in {lower(all_text)} :
          \A word \in {lower(trigger_state.trigger_word)} :
          \A P \in {{p \in 0..(Len(all_text) - Len(word)) : OccursAt(lowered, word, p)}} :
              /\ P # {} =>
                    \A rest \in {Trimmed(SubSeq(all_text, Max(P) + Len(word) + 1,
                                                Len(all_text)))} :
                        post_trigger_text' = WithoutLeading(rest, Artifacts)
              /\ extract_statement([trigger_word |-> W_hello, trigger_segment_index |-> 0],
                                   <<[text |-> T_hello_hello_there]>>) = S_there
      ]_vars

\* A finalization on " Hello hello, There " took the text after the second
\* occurrence.
C5_Witness ==
    /\ branch = "finalize"
    /\ Len(segments) >= 1
    /\ segments[Len(segments)].text = T_Hello_hello_There
    /\ post_trigger_text = S_There

\* C6: a statement is written to the sink and counted only at a finalization
\* whose trimmed candidate is non-empty, is neither "." nor ",", and differs
\* from last_saved_text; when the trimmed candidate is empty, "." or ",",
\* the sink, last_saved_text, the cooldown and the counters stay as they were.
C6_SaveOnlyMeaningful ==
    [][/\ (trigger_file' # trigger_file
             \/ stats'.trigger_statements_saved # stats.trigger_statements_saved
             \/ trigger_state'.last_saved_text # trigger_state.last_saved_text) =>
             /\ branch' = "finalize"
             /\ Trimmed(post_trigger_text') \notin {<<>>, <<".">>, <<",">>}
             /\ Trimmed(post_trigger_text') # trigger_state.last_saved_text
       /\ (branch' = "finalize"
             /\ Trimmed(post_trigger_text') \in {<<>>, <<".">>, <<",">>}) =>
             /\ trigger_file' = trigger_file
             /\ trigger_state'.last_saved_text = trigger_state.last_saved_text
             /\ trigger_state'.cooldown_until = trigger_state.cooldown_until
             /\ stats'.trigger_statements_saved = stats.trigger_statements_saved
             /\ save_outcome' = "none"
      ]_vars

\* A finalization whose candidate was a bare "." wrote nothing.
C6_Witness ==
    /\ branch = "finalize"
    /\ Trimmed(post_trigger_text) = <<".">>
    /\ save_outcome = "none"

\* C7: after every finalization, saved or not, the detector is Idle, the
\* trigger word, index, start time, last-change time and deadline are cleared,
\* and the processed count is the length of the finalizing delivery.
C7_ResetAfterFinalization ==
    branch = "finalize" =>
        /\ Cleared(trigger_state)
        /\ trigger_state.last_processed_segment_count = Len(segments)

\* A finalization of a two-segment delivery that saved nothing.
C7_Witness ==
    /\ branch = "finalize"
    /\ save_outcome = "none"
    /\ Len(segments) = 2
    /\ trigger_state.last_processed_segment_count = 2

\* C8: after a statement was saved at time t, a callback at a time below
\* t + 2.0 s changes no field of the trigger state, opens no trigger and
\* saves nothing.
C8_IgnoredAfterSave ==
    [][(CallbackStep /\ last_block_time # NoTime
          /\ now' < last_block_time + CooldownTicks) =>
          /\ trigger_state' = trigger_state
          /\ trigger_file' = trigger_file
          /\ stats' = stats
      ]_vars

\* While cooldown_until lies ahead, a callback changes nothing.
IgnoredDuringCooldown ==
    [][(CallbackStep /\ now' < trigger_state.cooldown_until) =>
          /\ branch' \in {"return", "cooldown"}
          /\ trigger_state' = trigger_state
          /\ trigger_file' = trigger_file
          /\ stats' = stats
      ]_vars

\* C9: with the list ["hello world", "how are you"] unchanged, callbacks save
\* "world how are you" once, at the first finalization, and open no second
\* trigger; the one save is missing only if the sink could not be opened.
C9_ScenarioASavedOnce ==
    /\ Len(trigger_file) <= 1
    /\ stats.trigger_words_detected <= 1
    /\ stats.trigger_statements_saved <= 1
    /\ \A i \in 1..Len(trigger_file) :
          trigger_file[i] = [trigger_word |-> W_hello, statement |-> S_world_how_are_you]
    /\ branch = "finalize" =>
          /\ post_trigger_text = S_world_how_are_you
          /\ save_outcome # "none"
          /\ save_outcome # "open_fails" =>
                Len(trigger_file) = 1 /\ stats.trigger_statements_saved = 1
    /\ trigger_state.last_processed_segment_count > 0 => ~trigger_state.waiting

\* After the save and its cooldown, a callback with the same list found nothing.
C9_Witness ==
    /\ branch = "scan"
    /\ Len(trigger_file) = 1
    /\ stats.trigger_statements_saved = 1
    /\ now >= trigger_state.cooldown_until
    /\ trigger_state.last_processed_segment_count = 2

\* C10: when the write to the trigger output file fails, the detector is
\* still reset to Idle with the processed count at the delivered length, and
\* last_saved_text, the cooldown, the sink and the saved counter are unchanged.
C10_WriteFailureContained ==
    [][(branch' = "finalize" /\ save_outcome' = "open_fails") =>
          /\ Cleared(trigger_state')
          /\ trigger_state'.last_processed_segment_count = Len(segments')
          /\ trigger_state'.last_saved_text = trigger_state.last_saved_text
          /\ trigger_state'.cooldown_until = trigger_state.cooldown_until
          /\ trigger_file' = trigger_file
          /\ stats' = stats
      ]_vars

\* A finalization whose write failed, after an earlier statement was saved.
C10_Witness ==
    /\ branch = "finalize"
    /\ save_outcome = "open_fails"
    /\ trigger_state.last_saved_text # <<>>

\* ---------------------------------------------------------------------------
\* Properties of TranscriptionLogger
\* ---------------------------------------------------------------------------

\* The dedup key of a segment dict: (trimmed text, start, end), a missing
\* text being '' and a missing time 0.
DedupKey(d) ==
    <<Trimmed(IF "text" \in DOMAIN d THEN d.text ELSE <<>>),
      IF "start" \in DOMAIN d THEN d.start ELSE Num(0),
      IF "end" \in DOMAIN d THEN d.end ELSE Num(0)>>

\* The positions of the segment entries in the in-memory entry list.
RecordedEntries(lg) ==
    {i \in 1..Len(lg.json_segments) : lg.json_segments[i].type = "transcription"}

\* A time value that is a number or the text of one.
Numeric(v) == v.kind = "num" \/ (v.kind = "str" /\ v.v \in {"1", "4"})

ValueOf(v) == IF v.kind = "num" THEN v.v ELSE IF v.v = "1" THEN 1 ELSE 4

\* A number of half-milliseconds to the nearest millisecond, halves away
\* from zero.
Rounded(d) == CHOOSE r \in {d - 1, d, d + 1} : r % 2 = 0 /\ (d % 2 = 0 => r = d) /\ (d > 0 => r >= d) /\ (d < 0 => r <= d)

\* A segment dict whose start and end are both present and numeric.
HasTimes(d) ==
    /\ "start" \in DOMAIN d
    /\ "end" \in DOMAIN d
    /\ Numeric(d.start)
    /\ Numeric(d.end)

\* The counters of the statistics.
Counters ==
    {"total_segments", "completed_segments", "incomplete_segments", "total_words",
     "total_duration", "trigger_words_detected", "trigger_statements_saved",
     "vad_silence_filters", "vad_total_events"}

\* C11: log_segment on a segment whose dedup key was already recorded returns
\* without recording and changes nothing (statistics, dedup set, entry list,
\* last_segment_time, both log files); a key not yet recorded is recorded
\* once, so after any call the entry list holds exactly one entry for the key
\* (when the entry list is kept) and the dedup set holds the key.
C11_LogSegmentIdempotent ==
    [][returned'.op = "log_segment" =>
          \A key \in {DedupKey(returned'.data)} :
              /\ key \in logger.logged_segments =>
                    /\ returned'.result = "skipped"
                    /\ logger' = logger
                    /\ stats' = stats
              /\ key \notin logger.logged_segments =>
                    /\ returned'.result # "skipped"
                    /\ stats'.total_segments = stats.total_segments + 1
              /\ key \in logger'.logged_segments
              /\ Cardinality(logger'.logged_segments) = stats'.total_segments
              /\ logger.enable_json =>
                    Cardinality({i \in RecordedEntries(logger') :
                                    DedupKey(logger'.json_segments[i].data) = key}) = 1
      ]_vars

\* The padded, uncompleted copy of a recorded segment was skipped after the
\* clock had moved on.
C11_Witness ==
    /\ returned.op = "log_segment"
    /\ returned.result = "skipped"
    /\ "text" \in DOMAIN returned.data
    /\ returned.data.text = T_a_b_padded
    /\ now > logger.last_segment_time
    /\ stats.total_segments = 1

\* C12: completed_segments + incomplete_segments = total_segments in every
\* state, whatever calls were made.
C12_CompletedPlusIncomplete ==
    stats.completed_segments + stats.incomplete_segments = stats.total_segments

\* A completed segment and one without a 'completed' key are recorded, and a
\* duplicate has just been skipped.
C12_Witness ==
    /\ stats.completed_segments >= 1
    /\ stats.incomplete_segments >= 1
    /\ returned.op = "log_segment"
    /\ returned.result = "skipped"

\* C13: no counter of the statistics decreases in any step.
C13_CountersNeverDecrease ==
    [][\A c \in Counters : stats'[c] >= stats[c]]_vars

\* A segment was recorded whose end lies below the total duration.
C13_Witness ==
    /\ returned.op = "log_segment"
    /\ returned.result = "recorded"
    /\ HasTimes(returned.data)
    /\ ValueOf(returned.data.end) < stats.total_duration

Matches(segs, words, j, k) ==
    \E text \in {Trimmed(get_text(segs[j + 1]))} :
        /\ text # <<>>
        /\ contains(lower(text), lower(words[k]))

\* C15: a callback in Idle (outside the cooldown) opens a trigger exactly when
\* some segment from the processed count on matches some configured word; the
\* segment taken is the first such segment in list order and the word the
\* first configured word it contains; the state then holds that word as
\* configured, the segment's index in the delivered list, start_time =
\* last_change_time = now and waiting_segment_count = the length of the
\* list, and one trigger is counted.
C15_FirstMatchOpens ==
    [][(/\ CallbackStep
        /\ ~trigger_state.waiting
        /\ (trigger_state.cooldown_until = NoTime \/ now >= trigger_state.cooldown_until)
        /\ segments # <<>>) =>
          \A p \in {trigger_state.last_processed_segment_count} :
          \A hits \in {{j \in p..(Len(segments) - 1) :
                           \E k \in 1..Len(trigger_words) :
                               Matches(segments, trigger_words, j, k)}} :
              IF hits = {}
              THEN /\ trigger_state' = trigger_state
                   /\ stats' = stats
              ELSE \A j \in {Min(hits)} :
                   \A k \in {Min({w \in 1..Len(trigger_words) :
                                     Matches(segments, trigger_words, j, w)})} :
                       /\ trigger_state' =
                              [trigger_state EXCEPT
                                  !.waiting = TRUE,
                                  !.trigger_word = trigger_words[k],
                                  !.trigger_segment_index = j,
                                  !.start_time = now,
                                  !.last_change_time = now,
                                  !.waiting_segment_count = Len(segments)]
                       /\ stats'.trigger_words_detected = stats.trigger_words_detected + 1
      ]_vars

\* A trigger has just opened on the second segment of a list whose first
\* segment is blank; the segment holds both words and the word taken is the
\* first configured one, configured with a capital.
C15_Witness ==
    /\ branch = "open"
    /\ trigger_words = <<S_There, W_hello>>
    /\ Len(segments) = 2
    /\ segments[1].text = <<" ">>
    /\ segments[2].text = T_Hello_hello_There
    /\ trigger_state.trigger_word = S_There
    /\ trigger_state.trigger_segment_index = 1
    /\ stats.trigger_words_detected = 1

\* ------------------------------------------ Properties of combined_callback
\* The step is a call of combined_callback.
Delivers == returned'.op = "combined_callback"

\* The dedup keys of the completed segments of a list.
CompletedKeys(segs) ==
    {DedupKey(segs[i]) : i \in {j \in 1..Len(segs) : segs[j].completed}}

\* C16 as stated: a delivery with a VAD sub-event records no segment and
\* leaves the trigger state as it was, whatever the configuration.
C16_VadDeliveryOnlyLogsEvent ==
    [][(Delivers /\ returned'.vad_event # NoVadEvent) =>
          /\ trigger_state' = trigger_state
          /\ ~returned'.detector
          /\ logger'.logged_segments = logger.logged_segments
          /\ stats'.total_segments = stats.total_segments
      ]_vars

C18_NothingPropagates ==
    returned.op = "combined_callback" => returned.result # "propagated"

\* C19 as stated: a delivery of segments calls the trigger detector (when
\* trigger words are configured) and records every completed segment of the
\* list (when there is a logger), whether or not a write fails.
C19_PathsIsolated ==
    [][(Delivers /\ returned'.vad_event = NoVadEvent) =>
          /\ trigger_words # <<>> => returned'.detector
          /\ logger.present => CompletedKeys(segments) \subseteq logger'.logged_segments
      ]_vars

\* ------------------------------------------ Properties of concurrent calls
\* C20 as stated: with the callback called from two threads, the statement
\* of an open window is appended at most once: the trigger file never holds
\* more blocks than triggers were detected.
C20_AppendedOncePerWindow ==
    Len(trigger_file) <= stats.trigger_words_detected

\* A step that is one call of log_vad_event or log_trigger_event.
RecordsEvent == returned'.op \in {"log_vad_event", "log_trigger_event"}

\* C22 as stated: every event (VAD event, trigger detected, statement saved)
\* is appended with its timestamp to the entry list of the structured log
\* whatever verbose is, and the text log gets a line only in verbose mode.
C22_EveryEventInStructuredLog ==
    [][RecordsEvent =>
          /\ logger.enable_json =>
                /\ Len(logger'.json_segments) = Len(logger.json_segments) + 1
                /\ SubSeq(logger'.json_segments, 1, Len(logger.json_segments)) = logger.json_segments
                /\ \A e \in {logger'.json_segments[Len(logger'.json_segments)]} :
                      /\ e.timestamp = now
                      /\ e.event = returned'.event
          /\ ~logger.verbose => logger'.text_log = logger.text_log
      ]_vars

\* C23: after a log_segment call that records an entry and returns, the
\* structured log file holds the session id, the statistics as they are in
\* memory after the call, and the whole in-memory list of entries and events
\* in order.
C23_FileIsSnapshotOfMemory ==
    [][(returned'.op = "log_segment" /\ returned'.result = "recorded" /\ logger.enable_json) =>
          /\ logger'.json_log.session_id = logger'.session_id
          /\ logger'.json_log.stats = stats'
          /\ logger'.json_log.segments = logger'.json_segments
          /\ logger'.json_segments[Len(logger'.json_segments)] = returned'.entry
      ]_vars

\* A segment recorded after a VAD event: the file holds both, in order.
C23_Witness ==
    /\ returned.op = "log_segment"
    /\ returned.result = "recorded"
    /\ Len(logger.json_log.segments) = 2
    /\ logger.json_log.segments[1].type = "vad_event"
    /\ logger.json_log.stats.total_segments = 1
    /\ logger.json_log.stats.vad_total_events = 1

\* The positions of the segment blocks in the text log.
SegmentBlocks(lg) ==
    {i \in 1..Len(lg.text_log) : lg.text_log[i].line = "segment"}

\* The elements of s at the positions in I, in order.
RECURSIVE Selected(_, _)

Selected(s, I) ==
    IF I = {} THEN <<>>
    ELSE Selected(s, I \ {Max(I)}) \o <<s[Max(I)]>>

\* C24 as stated: with the text log enabled, it holds one block for each
\* recorded entry, in recording order: as many blocks as total_segments, the
\* k-th block being the block of the k-th entry.
C24_OneBlockPerEntry ==
    logger.enable_text =>
        /\ Cardinality(SegmentBlocks(logger)) = stats.total_segments
        /\ logger.enable_json =>
              [k \in 1..Cardinality(SegmentBlocks(logger)) |->
                   Selected(logger.text_log, SegmentBlocks(logger))[k].info]
              = Selected(logger.json_segments, RecordedEntries(logger))

\* C25: a log_segment call that a failing write ends by an exception has
\* counted the segment once, added its key to the dedup set and appended its
\* entry to the in-memory list; the statistics and the list stay consistent;
\* a later delivery of the segment is skipped; and the next rewrite of the
\* structured log holds every recorded entry, this one included.
C25_MemoryAuthoritative ==
    [][returned'.op = "log_segment" =>
          \A key \in {DedupKey(returned'.data)} :
              /\ returned'.result = "raised" =>
                    /\ key \notin logger.logged_segments
                    /\ logger'.logged_segments = logger.logged_segments \cup {key}
                    /\ stats'.total_segments = stats.total_segments + 1
                    /\ Len(logger'.json_segments) = Len(logger.json_segments) + 1
                    /\ SubSeq(logger'.json_segments, 1, Len(logger.json_segments)) = logger.json_segments
                    /\ logger'.json_segments[Len(logger'.json_segments)].type = "transcription"
                    /\ logger'.json_segments[Len(logger'.json_segments)].data = returned'.data
              /\ key \in logger.logged_segments =>
                    /\ returned'.result = "skipped"
                    /\ stats' = stats
                    /\ logger' = logger
              /\ returned'.result = "recorded" =>
                    /\ logger'.json_log.segments = logger'.json_segments
                    /\ logger'.json_log.stats = stats'
              /\ stats'.total_segments = Cardinality(RecordedEntries(logger'))
              /\ stats'.total_segments = Cardinality(logger'.logged_segments)
              /\ stats'.total_segments = stats'.completed_segments + stats'.incomplete_segments
      ]_vars

\* A segment is recorded after the recording of another one raised: the file
\* holds both entries, the text log one block only.
C25_Witness ==
    /\ returned.op = "log_segment"
    /\ returned.result = "recorded"
    /\ Cardinality(RecordedEntries(logger)) = 2
    /\ Len(logger.json_log.segments) = 2
    /\ Cardinality(SegmentBlocks(logger)) = 1

\* C28 as stated: the segment_index values of the recorded entries, in
\* recording order, are 0, 1, 2, ...: the k-th recorded entry has index
\* k - 1, whatever events and skipped duplicates came in between.
C28_IndexesSequential ==
    \A entries \in {Selected(logger.json_segments, RecordedEntries(logger))} :
        \A k \in 1..Len(entries) : entries[k].segment_index = k - 1

\* C27 as stated: log_segment on a segment not yet recorded whose 'start' or
\* 'end' is missing or not numeric raises nothing when the files are
\* writable and records an entry without duration; segment_durations and
\* total_duration stay as they were, and the counters and the word count are
\* updated as for any segment.
C27_MalformedTimesNeverRaise ==
    [][(returned'.op = "log_segment" /\ "io" \in DOMAIN returned'
        /\ ~HasTimes(returned'.data)
        /\ DedupKey(returned'.data) \notin logger.logged_segments) =>
          /\ returned'.io = "ok" =>
                /\ returned'.result = "recorded"
                /\ "duration" \notin DOMAIN returned'.entry
          /\ stats'.segment_durations = stats.segment_durations
          /\ stats'.total_duration = stats.total_duration
          /\ stats'.total_segments = stats.total_segments + 1
          /\ stats'.completed_segments + stats'.incomplete_segments = stats'.total_segments
          /\ stats'.completed_segments = stats.completed_segments
                 + (IF get(returned'.data, "completed", FALSE) THEN 1 ELSE 0)
          /\ stats'.total_words = stats.total_words + 2
      ]_vars

\* The statistics, the dedup set and the entry list agree: every recorded
\* segment is counted once, has one key and, where the list is kept, one
\* entry, and no two entries have the same key or the same index.
Consistent(lg, st) ==
    /\ st.total_segments = Cardinality(lg.logged_segments)
    /\ st.total_segments = st.completed_segments + st.incomplete_segments
    /\ lg.enable_json =>
          /\ st.total_segments = Cardinality(RecordedEntries(lg))
          /\ \A i, j \in RecordedEntries(lg) :
                (DedupKey(lg.json_segments[i].data) = DedupKey(lg.json_segments[j].data)
                 \/ lg.json_segments[i].segment_index = lg.json_segments[j].segment_index) => i = j
          /\ Len(lg.json_segments) = st.total_segments + st.vad_total_events

\* A step in which thread t leaves 'with self.lock:'.
Releases(t) == frames[t].pc \in Holding /\ frames'[t].pc = "returned"

\* C21: at most one thread is inside 'with self.lock:' of the four methods;
\* whenever the lock is free the statistics, the dedup set and the entry
\* list are consistent, so no holder of the lock finds a partial update;
\* what a call leaves when it releases the lock is what the method makes of
\* the state it found when it took the lock; and of two calls of log_segment
\* in progress at the same time with the same key, not recorded before, one
\* records the entry and counts it, and the other is skipped.
C21_LockSerializesLogger ==
    [][/\ Cardinality({t \in Threads : frames'[t].pc \in Holding}) <= 1
       /\ lock_free(frames') => Consistent(logger', stats')
       /\ \A t \in Threads :
             Releases(t) =>
                 \A r \in {method(frames[t].call, frames[t].before.logger, frames[t].before.stats)} :
                     /\ logger' = r.logger
                     /\ stats' = r.stats
                     /\ frames'[t].result = r.result
       /\ \A t, u \in Threads :
             (/\ t # u
              /\ frames'[t].pc = "returned" /\ frames'[u].pc = "returned"
              /\ frames'[t].concurrent /\ frames'[u].concurrent
              /\ frames'[t].call.op = "log_segment" /\ frames'[u].call.op = "log_segment"
              /\ DedupKey(frames'[t].call.data) = DedupKey(frames'[u].call.data)
              /\ DedupKey(frames'[t].call.data) \notin frames'[t].before.logger.logged_segments) =>
                 /\ frames'[t].result # "skipped"
                 /\ frames'[u].result = "skipped"
                 /\ stats'.total_segments = frames'[t].before.stats.total_segments + 1
                 /\ logger'.enable_json =>
                       Cardinality({i \in RecordedEntries(logger') :
                                       DedupKey(logger'.json_segments[i].data)
                                       = DedupKey(frames'[t].call.data)}) = 1
      ]_vars

\* Two calls of log_segment with the same key and different dicts were in
\* progress at the same time: one entry is recorded, the other call skipped.
C21_Witness ==
    /\ frames[1].pc = "returned" /\ frames[2].pc = "returned"
    /\ frames[1].concurrent /\ frames[2].concurrent
    /\ frames[1].call.op = "log_segment" /\ frames[2].call.op = "log_segment"
    /\ frames[1].call.data # frames[2].call.data
    /\ DedupKey(frames[1].call.data) = DedupKey(frames[2].call.data)
    /\ frames[1].result = "skipped"
    /\ frames[2].result = "recorded"
    /\ Cardinality(RecordedEntries(logger)) = 1

\* C26 as stated: a delivery whose segment list is empty or None lets no
\* exception leave combined_callback, records no segment and leaves the
\* trigger state as it was, in every state of the detector.
C26_EmptyDeliveryIsNoOp ==
    [][(Delivers /\ "delivered" \in DOMAIN returned') =>
          /\ returned'.result # "propagated"
          /\ stats'.total_segments = stats.total_segments
          /\ logger'.logged_segments = logger.logged_segments
          /\ logger'.json_segments = logger.json_segments \/ returned'.vad_event # NoVadEvent
          /\ trigger_state' = trigger_state
      ]_vars

\* A callback that runs the Waiting branch and leaves the window open.
Collects == CallbackStep /\ trigger_state.waiting /\ branch' = "collect"

RECURSIVE SpaceJoinedFrom(_, _)

SpaceJoinedFrom(segs, i) ==
    IF i > Len(segs) THEN <<>>
    ELSE IF i = Len(segs) THEN Trimmed(get_text(segs[i]))
    ELSE Trimmed(get_text(segs[i])) \o <<" ">> \o SpaceJoinedFrom(segs, i + 1)

\* The captured trigger word occurs somewhere in the joined texts of segs.
WordOccurs(word, segs) ==
    \A lowered \in {lower(SpaceJoined(segs, Len(segs)))} :
        \E p \in 0..(Len(lowered) - Len(lower(word))) : OccursAt(lowered, lower(word), p)

\* C31: a finalization at which the captured trigger word occurs nowhere in
\* the joined texts of the delivered segments takes as candidate the trimmed
\* texts, joined by spaces, of the segments after the captured trigger
\* segment index; when there is none the candidate is empty and nothing is
\* saved.
C31_FallbackAfterTriggerSegment ==
    [][(branch' = "finalize" /\ ~WordOccurs(trigger_state.trigger_word, segments')) =>
          /\ post_trigger_text' =
                 SpaceJoinedFrom(segments', trigger_state.trigger_segment_index + 2)
          /\ Len(segments') <= trigger_state.trigger_segment_index + 1 =>
                 /\ post_trigger_text' = <<>>
                 /\ trigger_file' = trigger_file
                 /\ save_outcome' = "none"
      ]_vars

\* The trigger segment was revised to "how are you" and the statement "how
\* are you" of the segment after it was saved.
C31_Witness ==
    /\ branch = "finalize"
    /\ save_outcome = "ok"
    /\ Len(segments) = 2
    /\ segments[1].text = T_how_are_you
    /\ trigger_state.last_processed_segment_count = 2
    /\ post_trigger_text = T_how_are_you
    /\ trigger_file # <<>>

\* C32: a window whose collection deadline is set (within the time the clock
\* covers) is finalized and the detector is Idle again, when the clock keeps
\* advancing and callbacks with a non-empty list keep arriving, whatever
\* segments are appended or dropped in between.
C32_WindowCloses ==
    (/\ trigger_state.waiting
     /\ trigger_state.max_collection_time # NoTime
     /\ trigger_state.max_collection_time <= MaxTime) ~> ~trigger_state.waiting

\* A window past its deadline with a segment the detector has not counted
\* yet: the next callback restarts the stability clock, only the deadline can
\* close the window.
C32_Witness ==
    /\ trigger_state.waiting
    /\ trigger_state.max_collection_time # NoTime
    /\ now >= trigger_state.max_collection_time
    /\ Len(segments) > trigger_state.waiting_segment_count

\* C33: a callback that finalizes a window runs at least 2.0 s after the
\* window's start_time, whatever the stability delay and the deliveries.
C33_NoFinalizationBeforeMinimum ==
    [][branch' = "finalize" =>
          /\ trigger_state.start_time # NoTime
          /\ now' - trigger_state.start_time >= MinimumCollectionTime
      ]_vars

\* With a stability delay of 0 a window opened at time 0 is finalized at
\* 2.0 s, the earliest time there is.
C33_Witness ==
    /\ branch = "finalize"
    /\ trigger_state.stability_delay = 0
    /\ now = MinimumCollectionTime

\* No segment at index >= last_processed_segment_count has stripped text
\* containing a trigger word.
NoTriggerAtOrAbove(ts, segs, words) ==
    \A i \in (ts.last_processed_segment_count + 1)..Len(segs) :
        \A k \in 1..Len(words) :
            \/ strip(get_text(segs[i])) = <<>>
            \/ ~contains(lower(strip(get_text(segs[i]))), lower(words[k]))

\* C34: a callback that finds the detector Idle and no trigger word in the
\* segments at or above last_processed_segment_count leaves trigger_state
\* unchanged, and last_processed_segment_count changes only in a step that
\* finalizes a window.
C34_IdleScanChangesNothing ==
    [][/\ (/\ CallbackStep
            /\ ~trigger_state.waiting
            /\ NoTriggerAtOrAbove(trigger_state, segments, trigger_words))
           => trigger_state' = trigger_state
       /\ trigger_state'.last_processed_segment_count
               # trigger_state.last_processed_segment_count
           => branch' = "finalize"
      ]_vars

\* An Idle scan, after an earlier finalization and past its cooldown, over a
\* list with an unmatched segment above the processed count.
C34_Witness ==
    /\ branch = "scan"
    /\ ~trigger_state.waiting
    /\ trigger_state.last_processed_segment_count = 1
    /\ Len(segments) = 2

\* The cooldown of the last save has not expired at the current time.
CooldownActive == trigger_state.cooldown_until # NoTime /\ now < trigger_state.cooldown_until

\* C35: the detector is never Waiting while a cooldown is active; the
\* cooldown is assigned only in a step that leaves the detector Idle, and no
\* window opens at a time before the cooldown expires.
C35_NeverWaitingInCooldown ==
    /\ [](~(trigger_state.waiting /\ CooldownActive))
    /\ [][(trigger_state'.cooldown_until # trigger_state.cooldown_until
               => (branch' = "finalize" /\ ~trigger_state'.waiting))
           /\ (TriggerOpens
               => (trigger_state.cooldown_until = NoTime
                   \/ now' >= trigger_state.cooldown_until))
          ]_vars

\* A callback during the cooldown over a list that holds a trigger word above
\* the processed count: it returns and the detector stays Idle.
C35_Witness ==
    /\ branch = "cooldown"
    /\ CooldownActive
    /\ ~trigger_state.waiting
    /\ ~NoTriggerAtOrAbove(trigger_state, segments, trigger_words)

\* The statement of the block appended last to the trigger output file, the
\* empty text when the file has no block.
LastAppended(file) == IF file = <<>> THEN <<>> ELSE file[Len(file)].statement

\* C36 as stated: last_saved_text is the statement of the block appended last to the
\* trigger output file (empty before the first block), and no two
\* consecutive blocks of the file carry the same statement.
C36_LastSavedIsLastAppended ==
    /\ trigger_state.last_saved_text = LastAppended(trigger_file)
    /\ \A i \in 1..(Len(trigger_file) - 1) :
           trigger_file[i].statement # trigger_file[i + 1].statement

\* C37 as stated: the count of saved statements never exceeds the count of
\* detected trigger words.
C37_SavedAtMostDetected ==
    stats.trigger_statements_saved <= stats.trigger_words_detected

\* total_segments, the dedup set and the positions of the transcription
\* entries in the entry list.
SegmentTally == <<stats.total_segments, logger.logged_segments, RecordedEntries(logger)>>

\* C38 as stated: total_segments is the number of keys in the dedup set and, with the
\* entry list kept, the number of its transcription entries; a VAD event or
\* trigger event changes none of the three.
C38_TotalIsKeysIsEntries ==
    /\ [](/\ stats.total_segments = Cardinality(logger.logged_segments)
          /\ logger.enable_json =>
                 stats.total_segments = Cardinality(RecordedEntries(logger)))
    /\ [][RecordsEvent => SegmentTally' = SegmentTally]_vars

\* A special character of SendKeys.
Special(c) == \E k \in 1..Len(special_chars) : special_chars[k][1] = c

RECURSIVE EscapedOnce(_)
\* The text with each special character in braces and every other character
\* as it is.
EscapedOnce(text) ==
    IF text = <<>> THEN <<>>
    ELSE (IF Special(Head(text)) THEN <<"{", Head(text), "}">> ELSE <<Head(text)>>)
         \o EscapedOnce(Tail(text))

\* C39 as stated: _escape_sendkeys returns the text in which each special
\* character of the input is replaced once by its braced escape and every
\* other character is left as it is; the braces of an escape are not
\* escaped again.
C39_EachSpecialEscapedOnce ==
    returned.op = "_escape_sendkeys" => returned.escaped = EscapedOnce(returned.text)

====
